---- MODULE Spec2Model ----
(***************************************************************************)
(* Deterministic inference core of token-report-app: the escalation        *)
(* classifiers, the listing-context builder, the listing-requirement rule  *)
(* engine, the DDQ signal resolver, the response normaliser and the        *)
(* rule-based risk tag inference.                                          *)
(*                                                                         *)
(* Python strings are TLA+ strings (TLC evaluates Len, SubSeq, Tail and \o *)
(* on them); Python's None is the reserved value None below; a dict is a   *)
(* function whose DOMAIN is the set of keys that are present.              *)
(***************************************************************************)
EXTENDS Integers, Sequences, FiniteSets, TLC

VARIABLES
    pc,            \* "input": a DDQ is loaded; "built": a report was generated
    band,          \* overall_band_numeric handed to the listing layer
    escs,          \* board_escalations: list of BoardEscalation rows
    tags,          \* refined_risk_tags: list of {id, include, reason} records
    catalogue,     \* name of the rule catalogue build_listing_requirements iterates
    ctx,           \* result of build_listing_context
    reqs,          \* result of build_listing_requirements
    cards,         \* escalation cards of the report snapshot
    answers_by_key, \* parsed_ddq["answers_by_key"]: "<sheet>::<QID>" -> list of answer rows
    asked,         \* arguments of the last best_answer_for_question call, NoCall before one
    answer,        \* what that call returned
    registry,      \* name of the signal registry get_sources reads
    token_category, \* parsed_ddq["token_category"]
    inferred,      \* return value and side outputs of infer_risk_tags_from_ddq, NoCall before it
    calls,         \* number of infer_risk_tags_from_ddq calls on the parsed DDQ
    domain_stats,  \* parsed_ddq["domain_stats"]: list of DomainStats
    token_meta,    \* token_meta handed to build_report_snapshot by the caller
    refiner        \* the tag refiner: how it behaves, and how often it was called

listing == <<pc, band, escs, tags, catalogue, ctx, reqs, cards>>
ddq == <<answers_by_key, asked, answer, registry, token_category, inferred, calls>>
report == <<domain_stats, token_meta, refiner>>
vars == <<listing, ddq, report>>

\* Python's None where a string is expected
None == "<None>"

\* Python's None where a dict is expected
NoneDict == [ none |-> TRUE ]

\* asked before any best_answer_for_question call
NoCall == [ called |-> FALSE ]

\* token_meta of a caller that supplies no risk tags
NoTokenMeta == [ risk_tags |-> << >> ]

\* the tag refiner switched off (USE_GPT_RISK_TAG_REFINER other than "1")
NoRefiner == [ mode |-> "disabled", calls |-> 0 ]

(***************************************************************************)
(* Input vocabulary: the texts the inputs of the model are drawn from      *)
(***************************************************************************)
\* Board_Escalation_Flag cell texts
FlagTexts ==
    { "", "   ", "No Review", "Review Required", "Escalate to committee",
      "  BOARD REVIEW ", "Listing Committee referral", "Rejected",
      "No", "false", "0", "N/A", "Pending", "Monitor" }

\* domain names of the Master_Summary sheet
DomainNames ==
    { "Strategic, ESG & Reputational", "Technical & Protocol Security",
      "Token Fundamentals & Governance", "Regulatory & Legal",
      "Market & Liquidity Integrity" }

\* Confidence cell texts
ConfidenceTexts == { "High", "Medium", "low", "" }

\* Raw_Response cell texts
RawResponseTexts ==
    { "", "N/A", "na", "Not applicable", "not-applicable", "n/a - no oracle",
      "Unknown", "no oracle, not disclosed", "Yes - but unclear", "to be confirmed",
      "Some controls, TBC", "Not provided",
      "Yes", "y", "true", "Yes, fully", "Yesterday's audit",
      "No", "n", "False", "Not yet audited", "None", "none disclosed", "None known",
      "None identified to date",
      "partially disclosed", "Mixed", "In part", "Limited, yes", "Incomplete",
      "41.7%", "Timelock of 48h" }

Vocabulary == FlagTexts \cup DomainNames \cup ConfidenceTexts \cup RawResponseTexts

(***************************************************************************)
(* str methods                                                             *)
(***************************************************************************)
UpperLetters == "ABCDEFGHIJKLMNOPQRSTUVWXYZ"
LowerLetters == "abcdefghijklmnopqrstuvwxyz"

CharAt(s, i) == SubSeq(s, i, i)

IsSpace(c) == c \in {" ", "\t", "\n", "\r", "\f"}

\* upper-case letter -> lower-case letter
LowerTable ==
    [ c \in { CharAt(UpperLetters, i) : i \in 1..Len(UpperLetters) } |->
        CharAt(LowerLetters, CHOOSE i \in 1..Len(UpperLetters) : CharAt(UpperLetters, i) = c) ]

LowerChar(c) == IF c \in DOMAIN LowerTable THEN LowerTable[c] ELSE c

RECURSIVE LowerRec(_)
LowerRec(s) == IF s = "" THEN "" ELSE LowerChar(CharAt(s, 1)) \o LowerRec(Tail(s))

\* str.lower(); the results for the input vocabulary are tabulated once
LowerMemo == [ s \in Vocabulary |-> LowerRec(s) ]

Lower(s) == IF s \in Vocabulary THEN LowerMemo[s] ELSE LowerRec(s)

\* lower-case letter -> upper-case letter
UpperTable ==
    [ c \in { CharAt(LowerLetters, i) : i \in 1..Len(LowerLetters) } |->
        CharAt(UpperLetters, CHOOSE i \in 1..Len(LowerLetters) : CharAt(LowerLetters, i) = c) ]

UpperChar(c) == IF c \in DOMAIN UpperTable THEN UpperTable[c] ELSE c

RECURSIVE Upper(_)
Upper(s) == IF s = "" THEN "" ELSE UpperChar(CharAt(s, 1)) \o Upper(Tail(s))

RECURSIVE LStrip(_)
LStrip(s) == IF s # "" /\ IsSpace(CharAt(s, 1)) THEN LStrip(Tail(s)) ELSE s

RECURSIVE RStrip(_)
RStrip(s) ==
    IF s # "" /\ IsSpace(CharAt(s, Len(s))) THEN RStrip(SubSeq(s, 1, Len(s) - 1)) ELSE s

Strip(s) == RStrip(LStrip(s))

\* k in s
Contains(s, k) == \E i \in 0..(Len(s) - Len(k)) : SubSeq(s, i + 1, i + Len(k)) = k

StartsWith(s, k) == Len(k) <= Len(s) /\ SubSeq(s, 1, Len(k)) = k

Range(seq) == { seq[i] : i \in 1..Len(seq) }

\* d.get(k, default)
Get(d, k, default) == IF k \in DOMAIN d THEN d[k] ELSE default

(***************************************************************************)
(* Escalation classification                                               *)
(***************************************************************************)
NON_ESCALATION_FLAGS == { "", "no", "false", "0", "no review" }

REAL_ESCALATION_KEYWORDS ==
    << "review required", "board review", "listing committee", "escalate", "reject" >>

parser_is_real_board_trigger(flag) ==
    IF flag = None THEN FALSE
    ELSE LET f == Lower(Strip(flag)) IN
         IF f \in NON_ESCALATION_FLAGS THEN FALSE
         ELSE \E i \in 1..Len(REAL_ESCALATION_KEYWORDS) :
                  Contains(f, REAL_ESCALATION_KEYWORDS[i])

snapshot_NON_ESCALATION_FLAGS == { "", "no", "false", "0", "no review" }

snapshot_REAL_ESCALATION_KEYWORDS ==
    << "review required", "board review", "listing committee", "escalate", "reject" >>

snapshot_is_real_board_trigger(flag) ==
    IF flag = None THEN FALSE
    ELSE LET f == Lower(Strip(flag)) IN
         IF f \in snapshot_NON_ESCALATION_FLAGS THEN FALSE
         ELSE \E i \in 1..Len(snapshot_REAL_ESCALATION_KEYWORDS) :
                  Contains(f, snapshot_REAL_ESCALATION_KEYWORDS[i])

non_triggers ==
    { "no review", "no-review", "none", "n/a", "na", "informational", "info",
      "information only", "ok", "okay", "pass" }

is_real_escalation_flag(flag) ==
    LET s == Lower(Strip(IF flag # None THEN flag ELSE "")) IN
    IF s = "" THEN FALSE ELSE s \notin non_triggers

(***************************************************************************)
(* sorted() over strings: comparison by code point                         *)
(***************************************************************************)
Ascii == "\t\n\f\r 0123456789ABCDEFGHIJKLMNOPQRSTUVWXYZ_abcdefghijklmnopqrstuvwxyz"

Ord(c) == CHOOSE i \in 1..Len(Ascii) : CharAt(Ascii, i) = c

RECURSIVE StrLess(_, _)
StrLess(a, b) ==
    IF a = "" THEN b # ""
    ELSE IF b = "" THEN FALSE
    ELSE IF CharAt(a, 1) = CharAt(b, 1) THEN StrLess(Tail(a), Tail(b))
    ELSE Ord(CharAt(a, 1)) < Ord(CharAt(b, 1))

RECURSIVE SortedStrings(_)
SortedStrings(S) ==
    IF S = {} THEN << >>
    ELSE LET m == CHOOSE x \in S : \A y \in S \ {x} : StrLess(x, y)
         IN  << m >> \o SortedStrings(S \ {m})

(***************************************************************************)
(* Listing-context builder                                                 *)
(***************************************************************************)
RECURSIVE effective_ids(_, _, _)
effective_ids(refined_risk_tags, i, ids) ==
    IF i > Len(refined_risk_tags) THEN ids
    ELSE LET t == refined_risk_tags[i]
             id == Get(t, "id", None)
             tag_id == Strip(IF id = None THEN "" ELSE id)
         IN  IF ~Get(t, "include", TRUE) THEN effective_ids(refined_risk_tags, i + 1, ids)
             ELSE IF tag_id = "" THEN effective_ids(refined_risk_tags, i + 1, ids)
             ELSE effective_ids(refined_risk_tags, i + 1, ids \cup {tag_id})

\* mutant: the include flag of the records is not consulted
extract_effective_tag_ids_IgnoreInclude(refined_risk_tags) ==
    SortedStrings(effective_ids([ i \in 1..Len(refined_risk_tags) |->
                                    [ id |-> Get(refined_risk_tags[i], "id", None) ] ], 1, {}))

extract_effective_tag_ids(refined_risk_tags) ==
    SortedStrings(effective_ids(refined_risk_tags, 1, {}))

NoCounts ==
    [ total_escalations |-> 0, esg_escalations |-> 0, technical_escalations |-> 0,
      governance_escalations |-> 0, reg_escalations |-> 0 ]

\* one iteration of the loop over the escalation rows
count_escalation(esc, n) ==
    LET flag == Get(esc, "flag", None)
        domain_name == Get(esc, "domain_name", None)
        domain == Lower(IF domain_name = None THEN "" ELSE domain_name)
        t == [n EXCEPT !.total_escalations = @ + 1]
    IN  IF ~is_real_escalation_flag(flag) THEN n
        ELSE IF Contains(domain, "strategic") \/ Contains(domain, "esg")
                \/ Contains(domain, "reputational")
             THEN [t EXCEPT !.esg_escalations = @ + 1]
        ELSE IF Contains(domain, "technical") \/ Contains(domain, "protocol")
             THEN [t EXCEPT !.technical_escalations = @ + 1]
        ELSE IF Contains(domain, "token fundamentals") \/ Contains(domain, "governance")
             THEN [t EXCEPT !.governance_escalations = @ + 1]
        ELSE IF Contains(domain, "regulatory") \/ Contains(domain, "legal")
             THEN [t EXCEPT !.reg_escalations = @ + 1]
        ELSE t

RECURSIVE count_escalations(_, _, _)
count_escalations(board_escalations, i, n) ==
    IF i > Len(board_escalations) THEN n
    ELSE count_escalations(board_escalations, i + 1, count_escalation(board_escalations[i], n))

speculative_tags ==
    { "memecoin_hype_dependency_risk", "memecoin_no_utility_risk",
      "unsustainable_yield_risk", "behavioural_risk", "insider_unlocks_risk" }

hard_control_tags ==
    { "admin_key_centralisation_risk", "upgradeability_risk", "smart_contract_risk",
      "gov_token_governance_concentration_risk" }

\* mutant: the intermediate row compares the band with > instead of >=
posture_of_StrictBand(b, total_escalations, esg_escalations, has_speculative_profile, has_hard_control) ==
    IF \/ b >= 4
       \/ total_escalations >= 6
       \/ esg_escalations >= 2
       \/ (has_speculative_profile /\ has_hard_control)
    THEN "heightened"
    ELSE IF b > 3 /\ (total_escalations >= 3 \/ has_hard_control)
    THEN "intermediate"
    ELSE "benign"

\* mutant: the escalation threshold of the heightened row is off by one
posture_of_LateHeightened(b, total_escalations, esg_escalations, has_speculative_profile, has_hard_control) ==
    IF \/ b >= 4
       \/ total_escalations > 6
       \/ esg_escalations >= 2
       \/ (has_speculative_profile /\ has_hard_control)
    THEN "heightened"
    ELSE IF b >= 3 /\ (total_escalations >= 3 \/ has_hard_control)
    THEN "intermediate"
    ELSE "benign"

\* mutant: the heightened row lacks the speculative-and-hard-control clause
posture_of_NoProfileClause(b, total_escalations, esg_escalations, has_speculative_profile, has_hard_control) ==
    IF \/ b >= 4
       \/ total_escalations >= 6
       \/ esg_escalations >= 2
    THEN "heightened"
    ELSE IF b >= 3 /\ (total_escalations >= 3 \/ has_hard_control)
    THEN "intermediate"
    ELSE "benign"

\* mutant: the heightened row lacks the ESG escalation clause
posture_of_NoEsgClause(b, total_escalations, esg_escalations, has_speculative_profile, has_hard_control) ==
    IF \/ b >= 4
       \/ total_escalations >= 6
       \/ (has_speculative_profile /\ has_hard_control)
    THEN "heightened"
    ELSE IF b >= 3 /\ (total_escalations >= 3 \/ has_hard_control)
    THEN "intermediate"
    ELSE "benign"

posture_of(b, total_escalations, esg_escalations, has_speculative_profile, has_hard_control) ==
    IF \/ b >= 4
       \/ total_escalations >= 6
       \/ esg_escalations >= 2
       \/ (has_speculative_profile /\ has_hard_control)
    THEN "heightened"
    ELSE IF b >= 3 /\ (total_escalations >= 3 \/ has_hard_control)
    THEN "intermediate"
    ELSE "benign"

build_context(overall_band_numeric, board_escalations, refined_risk_tags) ==
    LET tagset == Range(extract_effective_tag_ids(refined_risk_tags))
        n == count_escalations(board_escalations, 1, NoCounts)
        has_speculative_profile == (tagset \cap speculative_tags) # {}
        has_hard_control == (tagset \cap hard_control_tags) # {}
        b == overall_band_numeric
    IN  [ tags |-> tagset,
          overall_band |-> b,
          total_escalations |-> n.total_escalations,
          esg_escalations |-> n.esg_escalations,
          technical_escalations |-> n.technical_escalations,
          governance_escalations |-> n.governance_escalations,
          reg_escalations |-> n.reg_escalations,
          has_speculative_profile |-> has_speculative_profile,
          has_hard_control |-> has_hard_control,
          posture |-> posture_of(b, n.total_escalations, n.esg_escalations,
                                 has_speculative_profile, has_hard_control) ]

build_listing_context(overall_band_numeric, board_escalations, refined_risk_tags) ==
    build_context(overall_band_numeric, board_escalations, refined_risk_tags)

(***************************************************************************)
(* Listing-requirement rule engine                                         *)
(***************************************************************************)
\* mutant: heightened is ranked below benign
posture_order_HeightenedLowest(p) ==
    CASE p = "benign" -> 1 [] p = "intermediate" -> 2 [] p = "heightened" -> 0

posture_order(p) ==
    CASE p = "benign" -> 1 [] p = "intermediate" -> 2 [] p = "heightened" -> 3

\* mutant: any_tag demands every listed tag
rule_matches_AnyTagAsAll(rule, c) ==
    LET cond == rule.conditions
        any_tag == Get(cond, "any_tag", << >>)
        all_tags == Get(cond, "all_tags", << >>)
    IN  IF "min_overall_band" \in DOMAIN cond /\ c.overall_band < cond.min_overall_band
        THEN FALSE
        ELSE IF "max_overall_band" \in DOMAIN cond /\ c.overall_band > cond.max_overall_band
        THEN FALSE
        ELSE IF "min_total_escalations" \in DOMAIN cond
                /\ c.total_escalations < cond.min_total_escalations
        THEN FALSE
        ELSE IF "min_esg_escalations" \in DOMAIN cond
                /\ c.esg_escalations < cond.min_esg_escalations
        THEN FALSE
        ELSE IF any_tag # << >> /\ ~(Range(any_tag) \subseteq c.tags)
        THEN FALSE
        ELSE IF all_tags # << >> /\ ~(Range(all_tags) \subseteq c.tags)
        THEN FALSE
        ELSE IF "min_posture" \in DOMAIN cond
                /\ posture_order(c.posture) < posture_order(cond.min_posture)
        THEN FALSE
        ELSE IF Get(cond, "requires_speculative_profile", FALSE)
                /\ ~c.has_speculative_profile
        THEN FALSE
        ELSE IF Get(cond, "requires_governance_centralisation", FALSE)
                /\ ~c.has_hard_control
        THEN FALSE
        ELSE TRUE

\* mutant: max_overall_band is an exclusive bound
rule_matches_ExclusiveMaxBand(rule, c) ==
    LET cond == rule.conditions
        any_tag == Get(cond, "any_tag", << >>)
        all_tags == Get(cond, "all_tags", << >>)
    IN  IF "min_overall_band" \in DOMAIN cond /\ c.overall_band < cond.min_overall_band
        THEN FALSE
        ELSE IF "max_overall_band" \in DOMAIN cond /\ c.overall_band >= cond.max_overall_band
        THEN FALSE
        ELSE IF "min_total_escalations" \in DOMAIN cond
                /\ c.total_escalations < cond.min_total_escalations
        THEN FALSE
        ELSE IF "min_esg_escalations" \in DOMAIN cond
                /\ c.esg_escalations < cond.min_esg_escalations
        THEN FALSE
        ELSE IF any_tag # << >> /\ (c.tags \cap Range(any_tag)) = {}
        THEN FALSE
        ELSE IF all_tags # << >> /\ ~(Range(all_tags) \subseteq c.tags)
        THEN FALSE
        ELSE IF "min_posture" \in DOMAIN cond
                /\ posture_order(c.posture) < posture_order(cond.min_posture)
        THEN FALSE
        ELSE IF Get(cond, "requires_speculative_profile", FALSE)
                /\ ~c.has_speculative_profile
        THEN FALSE
        ELSE IF Get(cond, "requires_governance_centralisation", FALSE)
                /\ ~c.has_hard_control
        THEN FALSE
        ELSE TRUE

rule_matches(rule, c) ==
    LET cond == rule.conditions
        any_tag == Get(cond, "any_tag", << >>)
        all_tags == Get(cond, "all_tags", << >>)
    IN  IF "min_overall_band" \in DOMAIN cond /\ c.overall_band < cond.min_overall_band
        THEN FALSE
        ELSE IF "max_overall_band" \in DOMAIN cond /\ c.overall_band > cond.max_overall_band
        THEN FALSE
        ELSE IF "min_total_escalations" \in DOMAIN cond
                /\ c.total_escalations < cond.min_total_escalations
        THEN FALSE
        ELSE IF "min_esg_escalations" \in DOMAIN cond
                /\ c.esg_escalations < cond.min_esg_escalations
        THEN FALSE
        ELSE IF any_tag # << >> /\ (c.tags \cap Range(any_tag)) = {}
        THEN FALSE
        ELSE IF all_tags # << >> /\ ~(Range(all_tags) \subseteq c.tags)
        THEN FALSE
        ELSE IF "min_posture" \in DOMAIN cond
                /\ posture_order(c.posture) < posture_order(cond.min_posture)
        THEN FALSE
        ELSE IF Get(cond, "requires_speculative_profile", FALSE)
                /\ ~c.has_speculative_profile
        THEN FALSE
        ELSE IF Get(cond, "requires_governance_centralisation", FALSE)
                /\ ~c.has_hard_control
        THEN FALSE
        ELSE TRUE

(***************************************************************************)
(* Rule catalogue (typographic apostrophes of the texts written as ')      *)
(***************************************************************************)
Rule_enhanced_structural_monitoring ==
    [ id |-> "enhanced_structural_monitoring",
      title |-> "Treat this asset as a complex protocol in monitoring",
      severity |-> "Recommended",
      text |-> "Classify this asset in your higher-complexity protocol tier and ensure it is included in existing monitoring for major upgrades, security incidents and governance changes, with clear internal triggers for re-review if a serious incident occurs.",
      conditions |->
        [ any_tag |-> << "complex_protocol_design_risk", "upgradeability_risk", "smart_contract_risk", "bridge_dependency_risk" >>,
          min_posture |-> "benign" ] ]

Rule_treasury_concentration_watch ==
    [ id |-> "treasury_concentration_watch",
      title |-> "Watch treasury and reserve activity",
      severity |-> "Recommended",
      text |-> "Track public disclosures and significant on-chain movements relating to the project's treasury or reserves, and treat adverse developments (for example large unexplained sales or governance controversy) as triggers for risk re-review.",
      conditions |->
        [ any_tag |-> << "treasury_concentration_risk" >>,
          min_posture |-> "benign" ] ]

Rule_governance_and_admin_controls ==
    [ id |-> "governance_and_admin_controls",
      title |-> "Document admin-key and governance controls",
      severity |-> "Recommended",
      text |-> "Maintain a documented internal view of admin-key holders, upgrade processes and governance controls for this asset, and ensure client disclosures explain that a small group can materially influence or interrupt token behaviour.",
      conditions |->
        [ any_tag |-> << "admin_key_centralisation_risk", "gov_token_governance_concentration_risk" >>,
          min_posture |-> "heightened",
          min_total_escalations |-> 1 ] ]

Rule_speculative_profile_retail_controls ==
    [ id |-> "speculative_profile_retail_controls",
      title |-> "Tighter guard-rails for speculative profile",
      severity |-> "Required",
      text |-> "For this asset, apply tighter guard-rails for retail and smaller institutional clients (for example lower exposure caps, stricter appropriateness thresholds and clearer front-end warnings) reflecting its speculative, controversy-prone profile and concentration of control.",
      conditions |->
        [ requires_speculative_profile |-> TRUE,
          min_posture |-> "heightened" ] ]

Rule_esg_reputational_review ==
    [ id |-> "esg_reputational_review",
      title |-> "ESG and reputational review before/on listing",
      severity |-> "Required",
      text |-> "Undertake an ESG and reputational assessment (including political, governance and sanctions-adjacent issues) and ensure the outcome is explicitly considered by the appropriate internal committee when approving, maintaining or suspending listing for this asset.",
      conditions |->
        [ min_esg_escalations |-> 1,
          min_posture |-> "intermediate" ] ]

Rule_committee_signoff_required ==
    [ id |-> "committee_signoff_required",
      title |-> "Formal committee sign-off",
      severity |-> "Required",
      text |-> "Ensure initial listing and any future suspension or delisting decisions for this asset are approved by an internal committee with full visibility of the DDQ assessment, board-level escalation points and incident history.",
      conditions |->
        [ min_total_escalations |-> 4,
          min_posture |-> "intermediate" ] ]

Rule_scheduled_risk_reassessment ==
    [ id |-> "scheduled_risk_reassessment",
      title |-> "Scheduled risk reassessment",
      severity |-> "Recommended",
      text |-> "Schedule periodic reassessment of this asset's risk profile, including review of DDQ responses, incidents, regulatory developments and key on-chain and market metrics, at least annually or after any major event.",
      conditions |->
        [ min_overall_band |-> 3 ] ]

LISTING_REQUIREMENT_RULES ==
    << Rule_enhanced_structural_monitoring,
       Rule_treasury_concentration_watch,
       Rule_governance_and_admin_controls,
       Rule_speculative_profile_retail_controls,
       Rule_esg_reputational_review,
       Rule_committee_signoff_required,
       Rule_scheduled_risk_reassessment >>

(***************************************************************************)
(* Further catalogues: one exercising the condition keys the shipped rules *)
(* leave unused, and a malformed one holding identifiers more than once    *)
(***************************************************************************)
Rule_band_window ==
    [ id |-> "band_window", title |-> "Band window", severity |-> "Informational",
      text |-> "Applies to bands 2 and 3.",
      conditions |-> [ min_overall_band |-> 2, max_overall_band |-> 3 ] ]

Rule_all_tags ==
    [ id |-> "speculative_and_admin_key", title |-> "Both tags", severity |-> "Recommended",
      text |-> "Applies when both tags are effective.",
      conditions |->
        [ all_tags |-> << "memecoin_hype_dependency_risk", "admin_key_centralisation_risk" >>,
          min_total_escalations |-> 1 ] ]

Rule_governance_centralisation ==
    [ id |-> "governance_centralisation", title |-> "Hard control", severity |-> "Required",
      text |-> "Applies to a hard-control profile with ESG escalations.",
      conditions |->
        [ requires_governance_centralisation |-> TRUE,
          min_esg_escalations |-> 1,
          min_posture |-> "intermediate" ] ]

Rule_unconditional ==
    [ id |-> "always", title |-> "Always", severity |-> "Informational",
      text |-> "Applies to every asset.",
      conditions |-> << >> ]

Rule_duplicate_id ==
    [ id |-> "scheduled_risk_reassessment", title |-> "Second entry of the identifier",
      severity |-> "Required", text |-> "Second entry.",
      conditions |-> [ min_overall_band |-> 2 ] ]

EXTENDED_RULES ==
    << Rule_band_window, Rule_all_tags, Rule_governance_centralisation, Rule_unconditional,
       Rule_speculative_profile_retail_controls >>

MALFORMED_RULES ==
    << Rule_scheduled_risk_reassessment, Rule_enhanced_structural_monitoring,
       Rule_duplicate_id, Rule_enhanced_structural_monitoring, Rule_unconditional >>

Catalogue(name) ==
    CASE name = "shipped" -> LISTING_REQUIREMENT_RULES
      [] name = "extended" -> EXTENDED_RULES
      [] name = "malformed" -> MALFORMED_RULES

requirement_of(rule) ==
    [ id |-> rule.id, title |-> rule.title, severity |-> rule.severity, text |-> rule.text ]

\* mutant: the loop appends without consulting seen_ids
RECURSIVE matching_rules_NoDedup(_, _, _, _, _)
matching_rules_NoDedup(rule_list, c, i, out, seen_ids) ==
    IF i > Len(rule_list) THEN out
    ELSE LET rule == rule_list[i] IN
         IF ~rule_matches(rule, c) THEN matching_rules_NoDedup(rule_list, c, i + 1, out, seen_ids)
         ELSE matching_rules_NoDedup(rule_list, c, i + 1, Append(out, requirement_of(rule)),
                                     seen_ids \cup {rule.id})

\* the loop over the catalogue, with its accumulators out and seen_ids
RECURSIVE matching_rules(_, _, _, _, _)
matching_rules(rule_list, c, i, out, seen_ids) ==
    IF i > Len(rule_list) THEN out
    ELSE LET rule == rule_list[i] IN
         IF ~rule_matches(rule, c) THEN matching_rules(rule_list, c, i + 1, out, seen_ids)
         ELSE IF rule.id \in seen_ids THEN matching_rules(rule_list, c, i + 1, out, seen_ids)
         ELSE matching_rules(rule_list, c, i + 1, Append(out, requirement_of(rule)),
                             seen_ids \cup {rule.id})

build_listing_requirements(rule_list, overall_band_numeric, board_escalations, refined_risk_tags) ==
    matching_rules(rule_list,
                   build_context(overall_band_numeric, board_escalations, refined_risk_tags),
                   1, << >>, {})

(***************************************************************************)
(* Report snapshot: escalation cards                                       *)
(***************************************************************************)
RECURSIVE escalation_cards(_, _, _)
escalation_cards(board_escalations, i, out) ==
    IF i > Len(board_escalations) THEN out
    ELSE LET esc == board_escalations[i] IN
         IF ~snapshot_is_real_board_trigger(esc.flag)
         THEN escalation_cards(board_escalations, i + 1, out)
         ELSE escalation_cards(board_escalations, i + 1,
                               Append(out, [ domain_name |-> esc.domain_name, flag |-> esc.flag ]))

(***************************************************************************)
(* State machine: a report is generated from the parsed inputs, and is     *)
(* generated again whenever a further escalation row or tag record is      *)
(* handed to the listing layer.                                            *)
(***************************************************************************)
Generate(b, e, t) ==
    /\ cards' = escalation_cards(e, 1, << >>)
    /\ ctx' = build_listing_context(b, e, t)
    /\ reqs' = build_listing_requirements(Catalogue(catalogue), b, e, t)

build_report_snapshot ==
    /\ pc = "input"
    /\ pc' = "built"
    /\ UNCHANGED <<band, escs, tags, catalogue, ddq, report>>
    /\ Generate(band, escs, tags)

AddEscalation(row) ==
    /\ pc = "built"
    /\ escs' = Append(escs, row)
    /\ UNCHANGED <<pc, band, tags, catalogue, ddq, report>>
    /\ Generate(band, escs', tags)

AddTag(rec) ==
    /\ pc = "built"
    /\ tags' = Append(tags, rec)
    /\ UNCHANGED <<pc, band, escs, catalogue, ddq, report>>
    /\ Generate(band, escs, tags')

InitWith(BandSet, TagLists, Catalogues) ==
    /\ pc = "input"
    /\ band \in BandSet
    /\ escs = << >>
    /\ tags \in TagLists
    /\ catalogue \in Catalogues
    /\ ctx = << >>
    /\ reqs = << >>
    /\ cards = << >>
    /\ answers_by_key = << >>
    /\ asked = NoCall
    /\ answer = NoneDict
    /\ registry = "shipped"
    /\ token_category = NoneDict
    /\ inferred = NoCall
    /\ calls = 0
    /\ domain_stats = << >>
    /\ token_meta = NoTokenMeta
    /\ refiner = NoRefiner

Esc(flag, domain_name) == [ flag |-> flag, domain_name |-> domain_name ]

Tag(id) == [ id |-> id, include |-> TRUE ]

\* overall band: 0 = unknown, 1..5
MaxBand == 5
Bands == 0..MaxBand

(***************************************************************************)
(* Spec: posture and requirements of the shipped catalogue                 *)
(***************************************************************************)
MaxEscalations == 6

PostureRows ==
    { Esc("Review Required", "Strategic, ESG & Reputational"),
      Esc("Review Required", "Technical & Protocol Security"),
      Esc("No Review", "Technical & Protocol Security") }

PostureTagLists ==
    { << >>,
      << Tag("smart_contract_risk") >>,
      << Tag("memecoin_hype_dependency_risk") >>,
      << Tag("memecoin_hype_dependency_risk"), Tag("admin_key_centralisation_risk") >> }

Init == InitWith(Bands, PostureTagLists, { "shipped" })

Next ==
    \/ build_report_snapshot
    \/ \E row \in PostureRows : Len(escs) < MaxEscalations /\ AddEscalation(row)

Spec == Init /\ [][Next]_vars

(***************************************************************************)
(* SpecClassifier: the escalation classifiers over a range of flag texts   *)
(***************************************************************************)
MaxClassifierRows == 2

ClassifierFlags == FlagTexts \cup { None }

ClassifierRows == { Esc(f, "Technical & Protocol Security") : f \in ClassifierFlags }

InitClassifier == InitWith({3}, { << >> }, { "shipped" })

NextClassifier ==
    \/ build_report_snapshot
    \/ \E row \in ClassifierRows : Len(escs) < MaxClassifierRows /\ AddEscalation(row)

SpecClassifier == InitClassifier /\ [][NextClassifier]_vars

(***************************************************************************)
(* Claims on the escalation classifiers (SpecClassifier)                   *)
(***************************************************************************)

\* C1: every component that counts escalations classifies every flag (and an
\* absent flag) alike, so the context's total_escalations equals the number
\* of escalation cards of the snapshot.
C1_SharedClassifier ==
    pc = "built" =>
        /\ \A i \in 1..Len(escs) :
              /\ is_real_escalation_flag(escs[i].flag) = parser_is_real_board_trigger(escs[i].flag)
              /\ is_real_escalation_flag(escs[i].flag) = snapshot_is_real_board_trigger(escs[i].flag)
        /\ ctx.total_escalations = Len(cards)

\* the real-trigger classification as the specification words it
C2_RealTrigger(flag) ==
    LET s == Lower(Strip(IF flag = None THEN "" ELSE flag)) IN
    /\ s # ""
    /\ s \notin { "no review", "no", "false", "0", "" }
    /\ \E k \in { "review required", "board review", "listing committee", "escalate", "reject" } :
          Contains(s, k)

\* C2: the context builder counts a row in total_escalations iff its flag,
\* trimmed and lower-cased, is non-empty, is no informational synonym and
\* contains one of the five keywords.
C2_CountsRealTriggers ==
    pc = "built" =>
        ctx.total_escalations = Cardinality({ i \in 1..Len(escs) : C2_RealTrigger(escs[i].flag) })

(***************************************************************************)
(* Claims on posture and on the shipped catalogue (Spec)                   *)
(***************************************************************************)
C_Rank(p) == CASE p = "benign" -> 1 [] p = "intermediate" -> 2 [] p = "heightened" -> 3

RequirementIds == { reqs[i].id : i \in 1..Len(reqs) }

\* identifiers of the records of a refined tag list that are included
IncludedIds(list) == { list[i].id : i \in { j \in 1..Len(list) : list[j].include } }

\* C3: the posture follows the decision table, first match wins; the two
\* profile flags are the intersections of the effective tags with the two
\* fixed tag sets.
C3_PostureTable ==
    pc = "built" =>
        LET heightened == \/ band >= 4
                          \/ ctx.total_escalations >= 6
                          \/ ctx.esg_escalations >= 2
                          \/ (ctx.has_speculative_profile /\ ctx.has_hard_control)
            intermediate == band >= 3 /\ (ctx.total_escalations >= 3 \/ ctx.has_hard_control)
        IN  /\ ctx.overall_band = band
            /\ ctx.posture = IF heightened THEN "heightened"
                             ELSE IF intermediate THEN "intermediate" ELSE "benign"
            /\ ctx.has_speculative_profile <=> \E t \in ctx.tags : t \in speculative_tags
            /\ ctx.has_hard_control <=> \E t \in ctx.tags : t \in hard_control_tags
            /\ Cardinality(speculative_tags) = 5
            /\ Cardinality(hard_control_tags) = 4

\* an intermediate posture reached through the escalation count alone
C3_Witness ==
    /\ pc = "built"
    /\ ctx.posture = "intermediate"
    /\ ctx.total_escalations = 4
    /\ ~ctx.has_hard_control

\* C4: with band and tags fixed, a further escalation row never lowers the
\* posture rank; with band 3 and no other heightened clause, 5 real
\* escalations give intermediate and the 6th gives heightened.
C4_PostureMonotone ==
    [][ (pc = "built" /\ escs' # escs) =>
          /\ C_Rank(ctx'.posture) >= C_Rank(ctx.posture)
          /\ ( /\ band = 3
               /\ ctx.total_escalations = 5 /\ ctx'.total_escalations = 6
               /\ ctx'.esg_escalations < 2
               /\ ~(ctx.has_speculative_profile /\ ctx.has_hard_control) )
             => (ctx.posture = "intermediate" /\ ctx'.posture = "heightened") ]_vars

\* the sixth real escalation has arrived at band 3 with no other heightened clause
C4_Witness ==
    /\ pc = "built"
    /\ band = 3
    /\ ctx.total_escalations = 6
    /\ ctx.esg_escalations < 2
    /\ ~(ctx.has_speculative_profile /\ ctx.has_hard_control)
    /\ ctx.posture = "heightened"

C7_Case ==
    /\ pc = "built"
    /\ band = 4
    /\ escs = << >>
    /\ tags # << >>
    /\ IncludedIds(tags) = { "smart_contract_risk" }

\* C7: band 4, no escalations, effective tags {smart_contract_risk}: posture
\* heightened, enhanced_structural_monitoring required, committee_signoff_required not.
C7_BandFourScenario ==
    C7_Case =>
        /\ ctx.posture = "heightened"
        /\ "enhanced_structural_monitoring" \in RequirementIds
        /\ "committee_signoff_required" \notin RequirementIds

C7_Witness == C7_Case /\ Len(reqs) > 0

C8_Case ==
    /\ pc = "built"
    /\ band = 2
    /\ escs = << >>
    /\ tags # << >>
    /\ IncludedIds(tags) = { "memecoin_hype_dependency_risk", "admin_key_centralisation_risk" }

\* C8: band 2, no escalations, effective tags {memecoin_hype_dependency_risk,
\* admin_key_centralisation_risk}: both profile flags true, posture heightened
\* although band < 4, speculative_profile_retail_controls required.
C8_SpeculativeHardControlScenario ==
    C8_Case =>
        /\ ctx.has_speculative_profile
        /\ ctx.has_hard_control
        /\ ctx.posture = "heightened"
        /\ ctx.overall_band < 4
        /\ "speculative_profile_retail_controls" \in RequirementIds

C8_Witness == C8_Case /\ ctx.tags # {}

(***************************************************************************)
(* SpecCatalogue: the rule engine over the shipped, the extended and the   *)
(* malformed catalogue                                                     *)
(***************************************************************************)
MaxCatalogueRows == 4

CatalogueRows ==
    { Esc("Review Required", "Strategic, ESG & Reputational"),
      Esc("Escalate to committee", "Regulatory & Legal") }

CatalogueTagLists ==
    { << >>,
      << Tag("smart_contract_risk") >>,
      << Tag("treasury_concentration_risk") >>,
      << Tag("memecoin_hype_dependency_risk") >>,
      << Tag("admin_key_centralisation_risk") >>,
      << Tag("memecoin_hype_dependency_risk"), Tag("admin_key_centralisation_risk") >> }

InitCatalogue == InitWith(Bands, CatalogueTagLists, { "shipped", "extended", "malformed" })

NextCatalogue ==
    \/ build_report_snapshot
    \/ \E row \in CatalogueRows : Len(escs) < MaxCatalogueRows /\ AddEscalation(row)

SpecCatalogue == InitCatalogue /\ [][NextCatalogue]_vars

\* every condition key present on a rule evaluates true in context c
C5_ConditionsHold(cond, c) ==
    /\ "min_overall_band" \in DOMAIN cond => c.overall_band >= cond.min_overall_band
    /\ "max_overall_band" \in DOMAIN cond => c.overall_band <= cond.max_overall_band
    /\ "min_total_escalations" \in DOMAIN cond => c.total_escalations >= cond.min_total_escalations
    /\ "min_esg_escalations" \in DOMAIN cond => c.esg_escalations >= cond.min_esg_escalations
    /\ "any_tag" \in DOMAIN cond => \E t \in Range(cond.any_tag) : t \in c.tags
    /\ "all_tags" \in DOMAIN cond => \A t \in Range(cond.all_tags) : t \in c.tags
    /\ "min_posture" \in DOMAIN cond => C_Rank(c.posture) >= C_Rank(cond.min_posture)
    /\ "requires_speculative_profile" \in DOMAIN cond => c.has_speculative_profile
    /\ "requires_governance_centralisation" \in DOMAIN cond => c.has_hard_control

UniqueIds(rule_list) ==
    \A i, j \in 1..Len(rule_list) : rule_list[i].id = rule_list[j].id => i = j

\* C5: for a catalogue of distinct identifiers, a rule's requirement is in the
\* output iff every condition key present on the rule evaluates true, whatever
\* the other rules do.
C5_RuleFiresIffConditionsHold ==
    (pc = "built" /\ UniqueIds(Catalogue(catalogue))) =>
        \A i \in 1..Len(Catalogue(catalogue)) :
            LET rule == Catalogue(catalogue)[i] IN
            (requirement_of(rule) \in Range(reqs)) <=> C5_ConditionsHold(rule.conditions, ctx)

\* all_tags, requires_governance_centralisation and min_esg_escalations are met
\* while max_overall_band fails
C5_Witness ==
    /\ pc = "built"
    /\ catalogue = "extended"
    /\ requirement_of(Rule_all_tags) \in Range(reqs)
    /\ requirement_of(Rule_governance_centralisation) \in Range(reqs)
    /\ requirement_of(Rule_band_window) \notin Range(reqs)
    /\ band > 3

RECURSIVE IsSubsequence(_, _)
IsSubsequence(a, b) ==
    IF a = << >> THEN TRUE
    ELSE IF b = << >> THEN FALSE
    ELSE IF Head(a) = Head(b) THEN IsSubsequence(Tail(a), Tail(b))
    ELSE IsSubsequence(a, Tail(b))

\* C6: the output is a subsequence of the catalogue, in catalogue order, and
\* holds no identifier twice, also for a catalogue that holds one twice.
C6_OrderedAndDeduplicated ==
    pc = "built" =>
        /\ IsSubsequence(reqs, [ i \in 1..Len(Catalogue(catalogue)) |->
                                    requirement_of(Catalogue(catalogue)[i]) ])
        /\ \A i, j \in 1..Len(reqs) : reqs[i].id = reqs[j].id => i = j

\* both entries of each twice-listed identifier match
C6_Witness ==
    /\ pc = "built"
    /\ catalogue = "malformed"
    /\ C5_ConditionsHold(Rule_scheduled_risk_reassessment.conditions, ctx)
    /\ C5_ConditionsHold(Rule_duplicate_id.conditions, ctx)
    /\ C5_ConditionsHold(Rule_enhanced_structural_monitoring.conditions, ctx)
    /\ Len(reqs) = 3

(***************************************************************************)
(* SpecRefinedTags: refined tag lists with excluded, repeated, padded and  *)
(* incomplete records                                                      *)
(***************************************************************************)
MaxTagRecords == 3
MaxRefinedRows == 1

RefinedTagRecords ==
    { Tag("memecoin_hype_dependency_risk"),
      [ id |-> "memecoin_hype_dependency_risk", include |-> FALSE ],
      Tag("admin_key_centralisation_risk"),
      [ id |-> "smart_contract_risk", include |-> FALSE ],
      [ id |-> " smart_contract_risk " ],
      [ include |-> TRUE ] }

RefinedRows == { Esc("Review Required", "Strategic, ESG & Reputational") }

InitRefinedTags == InitWith({2, 3, 4}, { << >> }, { "shipped" })

NextRefinedTags ==
    \/ build_report_snapshot
    \/ \E rec \in RefinedTagRecords : Len(tags) < MaxTagRecords /\ AddTag(rec)
    \/ \E row \in RefinedRows : Len(escs) < MaxRefinedRows /\ AddEscalation(row)

SpecRefinedTags == InitRefinedTags /\ [][NextRefinedTags]_vars

\* a record counts unless its include flag is false
C9_Included(rec) == Get(rec, "include", TRUE)

C9_IncludedIdentifiers(list) ==
    { Get(list[i], "id", None) : i \in { j \in 1..Len(list) : C9_Included(list[j]) } }

\* the orderings of a set
C9_Orderings(S) == { s \in [ 1..Cardinality(S) -> S ] : Range(s) = S }

C9_Wrapped(ids) == [ i \in 1..Len(ids) |-> Tag(ids[i]) ]

C9_SameResult(list) ==
    /\ ctx = build_listing_context(band, escs, list)
    /\ reqs = build_listing_requirements(Catalogue(catalogue), band, escs, list)

\* C9: the context and the requirements built from a refined tag list equal
\* those built from the list without its non-included records, and those built
\* from the set of included identifiers wrapped as included records in any order.
C9_NonIncludedAbsent ==
    pc = "built" =>
        /\ C9_SameResult(SelectSeq(tags, C9_Included))
        /\ \A ids \in C9_Orderings(C9_IncludedIdentifiers(tags)) : C9_SameResult(C9_Wrapped(ids))
        /\ \A i \in 1..Len(tags) :
              (~C9_Included(tags[i]) /\ tags[i].id \in ctx.tags)
                  => \E j \in 1..Len(tags) :
                        C9_Included(tags[j]) /\ Strip(Get(tags[j], "id", "")) = tags[i].id

\* an excluded record next to included ones, one of them repeated
C9_Witness ==
    /\ pc = "built"
    /\ \E i \in 1..Len(tags) : ~C9_Included(tags[i]) /\ tags[i].id \notin ctx.tags
    /\ \E i, j \in 1..Len(tags) : i # j /\ tags[i] = tags[j] /\ C9_Included(tags[i])
    /\ ctx.tags # {}

(***************************************************************************)
(* DDQ signals: response rows and answer selection                         *)
(***************************************************************************)
norm(x) == Strip(IF x = None THEN "" ELSE x)

norm_low(x) == Lower(norm(x))

confidence_rank(conf) ==
    LET c == norm_low(conf) IN
    IF StartsWith(c, "high") THEN 3
    ELSE IF StartsWith(c, "medium") THEN 2
    ELSE IF StartsWith(c, "low") THEN 1
    ELSE 0

\* key(sheet, qid) of the parser and _key(sheet, qid) of the signal layer
key(sheet, qid) == sheet \o "::" \o Upper(Strip(IF qid = None THEN "" ELSE qid))

\* str(citations_val).split(";"), each part stripped, empty parts dropped
RECURSIVE split_citations(_, _, _)
split_citations(cell, part, out) ==
    LET p == Strip(part)
        done == IF p # "" THEN Append(out, p) ELSE out
    IN  IF cell = "" THEN done
        ELSE IF CharAt(cell, 1) = ";" THEN split_citations(Tail(cell), "", done)
        ELSE split_citations(Tail(cell), part \o CharAt(cell, 1), out)

\* the rows stored so far, over all keys
StoredRows == UNION { Range(answers_by_key[k]) : k \in DOMAIN answers_by_key }

\* one data row of an answer sheet: rec is built and appended under its key
parse_question_response(sheet_name, qid_val, raw_val, conf_val, narrative_val, citations_val) ==
    LET qid == Strip(qid_val)
        rec == [ sheet |-> sheet_name,
                 question_id |-> qid,
                 raw_response |-> IF raw_val # None THEN Strip(raw_val) ELSE "",
                 confidence |-> IF conf_val # None THEN Strip(conf_val) ELSE "",
                 narrative_justification |->
                     IF narrative_val # None THEN Strip(narrative_val) ELSE "",
                 source_citations |->
                     IF citations_val \in { None, "" } THEN << >>
                     ELSE split_citations(citations_val, "", << >>),
                 row_number |-> Cardinality(StoredRows) + 2 ]
        k == key(sheet_name, qid)
    IN  /\ asked = NoCall
        /\ qid_val # None /\ qid # "" /\ Lower(qid) \notin { "none", "nan" }
        /\ answers_by_key' =
              IF k \in DOMAIN answers_by_key
              THEN [ answers_by_key EXCEPT ![k] = Append(@, rec) ]
              ELSE [ j \in DOMAIN answers_by_key \cup {k} |->
                       IF j = k THEN << rec >> ELSE answers_by_key[j] ]
        /\ UNCHANGED <<asked, answer, registry, token_category, inferred, calls, listing, report>>

RECURSIVE candidate_rows(_, _, _, _, _)
candidate_rows(by_key, sheet, question_ids, i, candidates) ==
    IF i > Len(question_ids) THEN candidates
    ELSE candidate_rows(by_key, sheet, question_ids, i + 1,
                        candidates \o Get(by_key, key(sheet, question_ids[i]), << >>))

score(a) ==
    << confidence_rank(Get(a, "confidence", None)),
       IF Get(a, "source_citations", << >>) # << >> THEN 1 ELSE 0,
       IF norm(Get(a, "narrative_justification", None)) # "" THEN 1 ELSE 0 >>

\* tuple comparison: a < b
score_less(a, b) ==
    \/ a[1] < b[1]
    \/ a[1] = b[1] /\ a[2] < b[2]
    \/ a[1] = b[1] /\ a[2] = b[2] /\ a[3] < b[3]

\* sorted(candidates, key=score, reverse=True): descending and stable, an
\* element goes behind every element that does not score less than it
RECURSIVE sorted_reverse(_, _, _)
sorted_reverse(candidates, i, out) ==
    IF i > Len(candidates) THEN out
    ELSE LET a == candidates[i]
             n == Cardinality({ j \in 1..Len(out) : ~score_less(score(out[j]), score(a)) })
         IN  sorted_reverse(candidates, i + 1,
                            SubSeq(out, 1, n) \o << a >> \o SubSeq(out, n + 1, Len(out)))

\* mutant: the sort lacks reverse=True
RECURSIVE sorted_ascending(_, _, _)
sorted_ascending(candidates, i, out) ==
    IF i > Len(candidates) THEN out
    ELSE LET a == candidates[i]
             n == Cardinality({ j \in 1..Len(out) : ~score_less(score(a), score(out[j])) })
         IN  sorted_ascending(candidates, i + 1,
                              SubSeq(out, 1, n) \o << a >> \o SubSeq(out, n + 1, Len(out)))

best_answer_for_question_Ascending(parsed_ddq, sheet, question_ids) ==
    LET by_key == Get(parsed_ddq, "answers_by_key", << >>)
        candidates == candidate_rows(by_key, sheet, question_ids, 1, << >>)
    IN  IF candidates = << >> THEN NoneDict
        ELSE sorted_ascending(candidates, 1, << >>)[1]

\* mutant: the best row is the last one of the ascending sort
best_answer_for_question_LastOfAscending(parsed_ddq, sheet, question_ids) ==
    LET by_key == Get(parsed_ddq, "answers_by_key", << >>)
        candidates == candidate_rows(by_key, sheet, question_ids, 1, << >>)
        ascending == sorted_ascending(candidates, 1, << >>)
    IN  IF candidates = << >> THEN NoneDict
        ELSE ascending[Len(ascending)]

best_answer_for_question(parsed_ddq, sheet, question_ids) ==
    LET by_key == Get(parsed_ddq, "answers_by_key", << >>)
        candidates == candidate_rows(by_key, sheet, question_ids, 1, << >>)
    IN  IF candidates = << >> THEN NoneDict
        ELSE sorted_reverse(candidates, 1, << >>)[1]

parsed_ddq_of(by_key) == [ answers_by_key |-> by_key ]

\* a call of best_answer_for_question on the parsed DDQ
resolve(sheet, question_ids) ==
    /\ asked' = [ sheet |-> sheet, question_ids |-> question_ids ]
    /\ answer' = best_answer_for_question(parsed_ddq_of(answers_by_key), sheet, question_ids)
    /\ UNCHANGED <<answers_by_key, registry, token_category, inferred, calls, listing, report>>

(***************************************************************************)
(* SpecResolver: rows are parsed into the answer store, then questions are *)
(* resolved against it                                                     *)
(***************************************************************************)
MaxRows == 2

SignalSheet == "Technical & Protocol Security"

QuestionIdCells == { "B3.1", " b3.1_new " }

NarrativeCells == { None, "Admin keys are held by a 3-of-5 multisig. " }

CitationCells == { None, "https://docs.example/security; https://audit.example/report ;" }

QuestionIdLists == { << "B3.1" >>, << "B3.1", "B3.1_NEW" >>, << "B3.2" >> }

InitResolver ==
    /\ pc = "input"
    /\ band = 0
    /\ escs = << >>
    /\ tags = << >>
    /\ catalogue = "shipped"
    /\ ctx = << >>
    /\ reqs = << >>
    /\ cards = << >>
    /\ answers_by_key = << >>
    /\ asked = NoCall
    /\ answer = NoneDict
    /\ registry = "shipped"
    /\ token_category = NoneDict
    /\ inferred = NoCall
    /\ calls = 0
    /\ domain_stats = << >>
    /\ token_meta = NoTokenMeta
    /\ refiner = NoRefiner

NextResolver ==
    \/ \E qid \in QuestionIdCells, conf \in ConfidenceTexts,
          narr \in NarrativeCells, cit \in CitationCells :
          /\ Cardinality(StoredRows) < MaxRows
          /\ parse_question_response(SignalSheet, qid, "Yes", conf, narr, cit)
    \/ \E qids \in QuestionIdLists : resolve(SignalSheet, qids)

SpecResolver == InitResolver /\ [][NextResolver]_vars

\* the candidate rows of the last call, in store order
C10_Candidates ==
    candidate_rows(answers_by_key, asked.sheet, asked.question_ids, 1, << >>)

\* confidence rank, citation presence, narrative presence
C10_Key(row) ==
    << CASE StartsWith(Lower(row.confidence), "high") -> 3
         [] StartsWith(Lower(row.confidence), "medium") -> 2
         [] StartsWith(Lower(row.confidence), "low") -> 1
         [] OTHER -> 0,
       IF Len(row.source_citations) > 0 THEN 1 ELSE 0,
       IF row.narrative_justification # "" THEN 1 ELSE 0 >>

C10_KeyLess(a, b) ==
    \E k \in 1..3 : a[k] < b[k] /\ \A j \in 1..(k - 1) : a[j] = b[j]

\* C10: the resolver returns a candidate that is maximal under the key
\* (confidence rank, has citations, has narrative); of a High and a Low
\* candidate it returns the High one, whichever was inserted first.
C10_BestIsMaximal ==
    (asked # NoCall /\ C10_Candidates # << >>) =>
        /\ answer \in Range(C10_Candidates)
        /\ \A c \in Range(C10_Candidates) : ~C10_KeyLess(C10_Key(answer), C10_Key(c))
        /\ ( /\ Len(C10_Candidates) = 2
             /\ { Lower(C10_Candidates[1].confidence), Lower(C10_Candidates[2].confidence) }
                    = { "high", "low" } )
           => Lower(answer.confidence) = "high"

\* a Low row with citations and narrative was inserted before a bare High row
C10_Witness ==
    /\ asked # NoCall
    /\ Len(C10_Candidates) = 2
    /\ Lower(C10_Candidates[1].confidence) = "low"
    /\ C10_Candidates[1].source_citations # << >>
    /\ C10_Candidates[1].narrative_justification # ""
    /\ C10_Candidates[2].confidence = "High"
    /\ C10_Candidates[2].source_citations = << >>
    /\ answer = C10_Candidates[2]

(***************************************************************************)
(* Question registry: signal name -> sources                               *)
(***************************************************************************)
SignalSource(sheet, question_ids) == [ sheet |-> sheet, question_ids |-> question_ids ]

QUESTION_ID_ALIASES == << >>

\* list(dict.fromkeys(xs)): the first occurrence of each element, in order
RECURSIVE fromkeys(_, _, _)
fromkeys(xs, i, out) ==
    IF i > Len(xs) THEN out
    ELSE fromkeys(xs, i + 1, IF xs[i] \in Range(out) THEN out ELSE Append(out, xs[i]))

expand_qids(qid) ==
    LET q == Strip(IF qid = None THEN "" ELSE qid)
        alts == Get(QUESTION_ID_ALIASES, q, << >>)
    IN  IF q = "" THEN << >>
        ELSE IF alts # << >> THEN fromkeys(alts, 1, << >>)
        ELSE << q >>

SIGNAL_SOURCES ==
    [
      privileged_functions_scope |->
          << SignalSource("Technical & Protocol Security", expand_qids("B3.1")) >>,
      emergency_pause_controls |->
          << SignalSource("Technical & Protocol Security", expand_qids("B3.2")) >>,
      privileged_roles_disclosure |->
          << SignalSource("Technical & Protocol Security", expand_qids("C1.1")) >>,
      timelock_present |->
          << SignalSource("Technical & Protocol Security", expand_qids("C3.1")) >>,
      upgradeability_profile |->
          << SignalSource("Technical & Protocol Security", expand_qids("A4.3")) >>,
      oracle_reliability |->
          << SignalSource("Technical & Protocol Security", expand_qids("A4.2")) >>,
      audit_coverage |->
          << SignalSource("Technical & Protocol Security", expand_qids("A1.1")) >>,
      audit_firm_quality |->
          << SignalSource("Technical & Protocol Security", expand_qids("A1.2")) >>,
      audit_recency |->
          << SignalSource("Technical & Protocol Security", expand_qids("A1.3")) >>,
      audit_reaudit_after_changes |->
          << SignalSource("Technical & Protocol Security", expand_qids("A1.4")) >>,
      audit_max_severity |->
          << SignalSource("Technical & Protocol Security", expand_qids("A1.5")) >>,
      liquidity_concentration |->
          << SignalSource("Market & Liquidity Integrity", expand_qids("A2.3")) >>,
      exit_feasibility |->
          << SignalSource("Market & Liquidity Integrity", expand_qids("A2.2")) >>,
      wash_trading_flags |->
          << SignalSource("Market & Liquidity Integrity", expand_qids("B2.1")) >>,
      team_allocation_pct |->
          << SignalSource("Token Fundamentals & Governance", expand_qids("E2.1")) >>,
      investor_allocation_pct |->
          << SignalSource("Token Fundamentals & Governance", expand_qids("E2.2")) >>,
      treasury_allocation_pct |->
          << SignalSource("Token Fundamentals & Governance", expand_qids("E2.3")) >>,
      unlock_schedule_disclosed |->
          << SignalSource("Token Fundamentals & Governance", expand_qids("E2.4")) >>,
      unlock_next_6m_pct |->
          << SignalSource("Token Fundamentals & Governance", expand_qids("E2.5")) >>,
      unlock_pacing_style |->
          << SignalSource("Token Fundamentals & Governance", expand_qids("E3.2")) >>,
      unlocks_milestone_link |->
          << SignalSource("Token Fundamentals & Governance", expand_qids("E3.3")) >>,
      governance_described_in_whitepaper |->
          << SignalSource("Token Fundamentals & Governance", expand_qids("D3")) >>,
      prior_governance_disputes |->
          << SignalSource("Token Fundamentals & Governance", expand_qids("B2.7")) >>,
      sanctions_designated_wallets |->
          << SignalSource("AML & Sanctions Risk", expand_qids("B1.1")) >>,
      sanctions_enforcement_actions |->
          << SignalSource("AML & Sanctions Risk", expand_qids("B1.2")) >>,
      sanctions_high_risk_geo_volume |->
          << SignalSource("AML & Sanctions Risk", expand_qids("B2.1")) >>,
      sanctions_structural_exposure |->
          << SignalSource("AML & Sanctions Risk", expand_qids("B2.3")) >>,
      sanctions_screening_controls |->
          << SignalSource("AML & Sanctions Risk", expand_qids("D1.2")) >>
    ]

\* a registry in which one signal has a priority list of two sources, the
\* first of them with a renumbered question id next to the old one
PRIORITY_SIGNAL_SOURCES ==
    [ s \in DOMAIN SIGNAL_SOURCES |->
        IF s = "privileged_functions_scope"
        THEN << SignalSource("Technical & Protocol Security", << "B3.1", "B3.1_NEW" >>),
                SignalSource("Token Fundamentals & Governance", << "B3.1" >>) >>
        ELSE SIGNAL_SOURCES[s] ]

Registry(name) == IF name = "shipped" THEN SIGNAL_SOURCES ELSE PRIORITY_SIGNAL_SOURCES

get_sources(signal_name) == Get(Registry(registry), signal_name, << >>)

(***************************************************************************)
(* Response normaliser                                                     *)
(***************************************************************************)
\* mutant: the explicit yes/no tests come before the unknown markers
normalise_raw_response_YesNoFirst(raw) ==
    LET s == norm_low(raw) IN
    IF s = "" THEN "unknown"
    ELSE IF s \in { "n/a", "na", "not applicable", "not-applicable" } THEN "na"
    ELSE IF s \in { "yes", "y", "true" } THEN "yes"
    ELSE IF StartsWith(s, "yes") THEN "yes"
    ELSE IF s \in { "no", "n", "false" } THEN "no"
    ELSE IF StartsWith(s, "no") THEN "no"
    ELSE IF \E k \in { "unknown", "unclear", "not disclosed", "not provided", "tbc",
                       "to be confirmed" } : Contains(s, k) THEN "unknown"
    ELSE IF s \in { "none disclosed", "none identified", "none reported", "none known" }
         THEN "no"
    ELSE IF StartsWith(s, "none disclosed") \/ StartsWith(s, "none identified") THEN "no"
    ELSE IF \E k \in { "partial", "partially", "mixed", "limited", "some", "in part",
                       "incomplete" } : Contains(s, k) THEN "partial"
    ELSE "other"

normalise_raw_response(raw) ==
    LET s == norm_low(raw) IN
    IF s = "" THEN "unknown"
    ELSE IF s \in { "n/a", "na", "not applicable", "not-applicable" } THEN "na"
    ELSE IF \E k \in { "unknown", "unclear", "not disclosed", "not provided", "tbc",
                       "to be confirmed" } : Contains(s, k) THEN "unknown"
    ELSE IF s \in { "yes", "y", "true" } THEN "yes"
    ELSE IF StartsWith(s, "yes") THEN "yes"
    ELSE IF s \in { "no", "n", "false" } THEN "no"
    ELSE IF StartsWith(s, "no") THEN "no"
    ELSE IF s \in { "none disclosed", "none identified", "none reported", "none known" }
         THEN "no"
    ELSE IF StartsWith(s, "none disclosed") \/ StartsWith(s, "none identified") THEN "no"
    ELSE IF \E k \in { "partial", "partially", "mixed", "limited", "some", "in part",
                       "incomplete" } : Contains(s, k) THEN "partial"
    ELSE "other"

\* a float, held as a whole number of hundredths: the texts of the model
\* carry at most two decimals, and their floats compare with 25 and 35, and
\* their float sums with 60, as the decimal numbers written do
Float(hundredths) == [ hundredths |-> hundredths ]

Digits == "0123456789"

IsDigit(c) == \E i \in 1..Len(Digits) : CharAt(Digits, i) = c

DigitValue(c) == (CHOOSE i \in 1..Len(Digits) : CharAt(Digits, i) = c) - 1

\* the position behind the run of digits that starts at i
RECURSIVE digits_end(_, _)
digits_end(s, i) ==
    IF i <= Len(s) /\ IsDigit(CharAt(s, i)) THEN digits_end(s, i + 1) ELSE i

\* the value of the digits s[i..j-1]
RECURSIVE digits_value(_, _, _, _)
digits_value(s, i, j, acc) ==
    IF i >= j THEN acc ELSE digits_value(s, i + 1, j, 10 * acc + DigitValue(CharAt(s, i)))

\* re.findall(r"\d+(?:\.\d+)?", s)[0] as a float, None without a digit
first_number(s) ==
    LET starts == { i \in 1..Len(s) : IsDigit(CharAt(s, i)) } IN
    IF starts = {} THEN NoneDict
    ELSE LET i == CHOOSE a \in starts : \A b \in starts : a <= b
             j == digits_end(s, i)
             has_fraction == /\ j + 1 <= Len(s)
                             /\ CharAt(s, j) = "."
                             /\ IsDigit(CharAt(s, j + 1))
             d1 == IF has_fraction THEN DigitValue(CharAt(s, j + 1)) ELSE 0
             d2 == IF has_fraction /\ j + 2 <= Len(s) /\ IsDigit(CharAt(s, j + 2))
                   THEN DigitValue(CharAt(s, j + 2)) ELSE 0
         IN  Float(100 * digits_value(s, i, j, 0) + 10 * d1 + d2)

\* all three branches (">=" prefix, "<" prefix, neither) take the first number
parse_float_from_text(x) ==
    LET s == norm_low(x) IN
    IF s = "" THEN NoneDict
    ELSE IF StartsWith(s, ">=") THEN first_number(s)
    ELSE IF StartsWith(s, "<") THEN first_number(s)
    ELSE first_number(s)

has_negative_cues(text) ==
    LET t == Lower(IF text = None THEN "" ELSE text) IN
    \E k \in { "unclear", "unknown", "not disclosed", "not provided", "cannot confirm",
               "no evidence", "insufficient", "incomplete", "fallback error" } :
        Contains(t, k)

(***************************************************************************)
(* Signal resolution                                                       *)
(***************************************************************************)
SignalAnswer(signal, sheet, question_id, raw_response, response_norm, confidence, narrative, citations, numeric) ==
    [ signal |-> signal, sheet |-> sheet, question_id |-> question_id,
      raw_response |-> raw_response, response_norm |-> response_norm,
      confidence |-> confidence, narrative |-> narrative, citations |-> citations,
      numeric |-> numeric ]

\* [_norm(c) for c in citations if _norm(c)]
RECURSIVE norm_citations(_, _, _)
norm_citations(citations, i, out) ==
    IF i > Len(citations) THEN out
    ELSE norm_citations(citations, i + 1,
                        IF norm(citations[i]) # "" THEN Append(out, norm(citations[i])) ELSE out)

\* the SignalAnswer built from the chosen row
answer_of_row(signal_name, src, ans) ==
    LET raw == norm(Get(ans, "raw_response", None)) IN
    SignalAnswer(signal_name, src.sheet, norm(Get(ans, "question_id", None)), raw,
                 normalise_raw_response(raw), norm(Get(ans, "confidence", None)),
                 norm(Get(ans, "narrative_justification", None)),
                 norm_citations(Get(ans, "source_citations", << >>), 1, << >>),
                 parse_float_from_text(raw))

\* all rows of all sources, in source order
RECURSIVE rows_of_sources(_, _, _, _)
rows_of_sources(parsed_ddq, sources, i, out) ==
    IF i > Len(sources) THEN out
    ELSE rows_of_sources(parsed_ddq, sources, i + 1,
            out \o candidate_rows(Get(parsed_ddq, "answers_by_key", << >>),
                                  sources[i].sheet, sources[i].question_ids, 1, << >>))

\* mutant: the rows of every source are pooled and the best of the pool wins
sources_loop_Pooled(parsed_ddq, signal_name, sources, i) ==
    LET pool == rows_of_sources(parsed_ddq, sources, 1, << >>) IN
    IF pool = << >> THEN NoneDict
    ELSE LET best == sorted_reverse(pool, 1, << >>)[1]
             src == sources[CHOOSE k \in 1..Len(sources) :
                                /\ best \in Range(rows_of_sources(parsed_ddq, sources, k, << >>))
                                /\ \A m \in (k + 1)..Len(sources) :
                                      best \notin Range(rows_of_sources(parsed_ddq, sources, m, << >>))]
         IN  answer_of_row(signal_name, src, best)

\* mutant: a source without an answer ends the loop (return, not continue)
sources_loop_ReturnEarly(parsed_ddq, signal_name, sources, i) ==
    IF sources = << >> THEN NoneDict
    ELSE LET ans == best_answer_for_question(parsed_ddq, sources[1].sheet,
                                             sources[1].question_ids)
         IN  IF ans = NoneDict THEN NoneDict
             ELSE answer_of_row(signal_name, sources[1], ans)

\* for src in sources: the first source with an answer decides
RECURSIVE sources_loop(_, _, _, _)
sources_loop(parsed_ddq, signal_name, sources, i) ==
    IF i > Len(sources) THEN NoneDict
    ELSE LET src == sources[i]
             ans == best_answer_for_question(parsed_ddq, src.sheet, src.question_ids)
         IN  IF ans = NoneDict \/ ans = << >>
             THEN sources_loop(parsed_ddq, signal_name, sources, i + 1)
             ELSE answer_of_row(signal_name, src, ans)

get_signal_answer(parsed_ddq, signal_name) ==
    sources_loop(parsed_ddq, signal_name, get_sources(signal_name), 1)

signal_missing(parsed_ddq, signal_name) == get_signal_answer(parsed_ddq, signal_name) = NoneDict

\* mutant: the candidates are the stored list itself and are sorted in place
answers_after_resolution_SortInPlace(by_key, signal_name) ==
    LET sources == get_sources(signal_name) IN
    IF by_key = NoneDict \/ sources = << >> THEN by_key
    ELSE LET k == key(sources[1].sheet, sources[1].question_ids[1]) IN
         IF k \in DOMAIN by_key
         THEN [ by_key EXCEPT ![k] = sorted_reverse(by_key[k], 1, << >>) ]
         ELSE by_key

\* parsed_ddq["answers_by_key"] after get_signal_answer: the index is only
\* read (by_key.get), candidates is a list of its own and sorted() copies
answers_after_resolution(by_key, signal_name) == by_key

\* the parsed DDQ; an absent answers_by_key index is NoneDict
ParsedDdq ==
    IF answers_by_key = NoneDict THEN [ token_category |-> token_category ]
    ELSE [ answers_by_key |-> answers_by_key, token_category |-> token_category ]

\* a call of get_signal_answer on the parsed DDQ
resolve_signal(signal_name) ==
    /\ inferred = NoCall
    /\ asked' = [ signal |-> signal_name ]
    /\ answer' = get_signal_answer(ParsedDdq, signal_name)
    /\ answers_by_key' = answers_after_resolution(answers_by_key, signal_name)
    /\ UNCHANGED <<registry, token_category, inferred, calls, listing, report>>

(***************************************************************************)
(* SpecSignals: rows of two sheets are parsed into the answer store, then  *)
(* signals are resolved against it, under the shipped registry or under a  *)
(* registry with a priority list                                           *)
(***************************************************************************)
MaxSignalRows == 3

FundamentalsSheet == "Token Fundamentals & Governance"

\* <<sheet, Question_ID, Raw_Response, Confidence, Narrative, Citations>> cells
SignalRowCells ==
    { << SignalSheet, "B3.1", "Yes", "High", None, None >>,
      << SignalSheet, "B3.1", "Yes, fully", "High", None, "https://docs.example/security" >>,
      << SignalSheet, " b3.1 ", "Not disclosed", "low",
         "Admin keys are held by a 3-of-5 multisig. ", None >>,
      << SignalSheet, "B3.1_NEW", "Partially", "High", None, None >>,
      << SignalSheet, "B3.1", None, "high ", None, None >>,
      << FundamentalsSheet, "B3.1", "No", "High", None, "https://docs.example/security" >>,
      << FundamentalsSheet, "B3.1", "N/A", "Medium", None, None >>,
      << SignalSheet, "B3.2", "41.7%", "", None, None >> }

SignalNames ==
    { "privileged_functions_scope", "emergency_pause_controls", "timelock_present",
      "not_in_registry" }

InitSignals ==
    /\ pc = "input"
    /\ band = 0
    /\ escs = << >>
    /\ tags = << >>
    /\ catalogue = "shipped"
    /\ ctx = << >>
    /\ reqs = << >>
    /\ cards = << >>
    /\ answers_by_key \in { << >>, NoneDict }
    /\ asked = NoCall
    /\ answer = NoneDict
    /\ registry \in { "shipped", "priority" }
    /\ token_category = NoneDict
    /\ inferred = NoCall
    /\ calls = 0
    /\ domain_stats = << >>
    /\ token_meta = NoTokenMeta
    /\ refiner = NoRefiner

NextSignals ==
    \/ \E row \in SignalRowCells :
          /\ answers_by_key # NoneDict
          /\ Cardinality(StoredRows) < MaxSignalRows
          /\ parse_question_response(row[1], row[2], row[3], row[4], row[5], row[6])
    \/ \E signal_name \in SignalNames : resolve_signal(signal_name)

SpecSignals == InitSignals /\ [][NextSignals]_vars

(***************************************************************************)
(* Claims on signal resolution (SpecSignals)                               *)
(***************************************************************************)
\* a signal was resolved against a store that has its index
C_Resolved == asked # NoCall /\ answers_by_key # NoneDict

\* the keys "<sheet>::<QID>" the sources of the resolved signal name
C_SignalKeys ==
    UNION { { key(src.sheet, q) : q \in Range(src.question_ids) } :
            src \in Range(get_sources(asked.signal)) }

\* the rows stored under the keys of the resolved signal
C_SignalRows ==
    UNION { Range(answers_by_key[k]) : k \in C_SignalKeys \cap DOMAIN answers_by_key }

\* the source a stored row belongs to
C_SourceOf(row) ==
    CHOOSE src \in Range(get_sources(asked.signal)) :
        \E q \in Range(src.question_ids) :
            /\ key(src.sheet, q) \in DOMAIN answers_by_key
            /\ row \in Range(answers_by_key[key(src.sheet, q)])

\* the SignalAnswer a stored row of the resolved signal would give
C_AnswerOf(row) == answer_of_row(asked.signal, C_SourceOf(row), row)

\* confidence rank of a stored row, by case-insensitive prefix
C_ConfidenceRank(row) ==
    CASE StartsWith(Lower(row.confidence), "high") -> 3
      [] StartsWith(Lower(row.confidence), "medium") -> 2
      [] StartsWith(Lower(row.confidence), "low") -> 1
      [] OTHER -> 0

C_HasCitations(row) == Len(row.source_citations) > 0

C_HasNarrative(row) == row.narrative_justification # ""

\* C11 as claimed: of two candidate rows of a signal (stored under one key)
\* with equal confidence, the resolver returns the one inserted earlier.
C11_EqualConfidenceEarlierWins ==
    C_Resolved =>
        \A k \in C_SignalKeys \cap DOMAIN answers_by_key :
            ( /\ C_SignalRows = Range(answers_by_key[k])
              /\ Len(answers_by_key[k]) = 2
              /\ C_ConfidenceRank(answers_by_key[k][1]) = C_ConfidenceRank(answers_by_key[k][2]) )
            => answer = C_AnswerOf(answers_by_key[k][1])

\* C11 amended: of two candidate rows of a signal stored under one key with
\* equal confidence rank, equal citation presence and equal narrative
\* presence, the resolver returns the one inserted earlier; the row returned
\* has no earlier row of its key that ties with it.
C11_FullTieEarlierWins ==
    C_Resolved =>
        \A k \in C_SignalKeys \cap DOMAIN answers_by_key :
            LET rows == answers_by_key[k] IN
            /\ ( /\ C_SignalRows = Range(rows)
                 /\ Len(rows) = 2
                 /\ C_ConfidenceRank(rows[1]) = C_ConfidenceRank(rows[2])
                 /\ C_HasCitations(rows[1]) = C_HasCitations(rows[2])
                 /\ C_HasNarrative(rows[1]) = C_HasNarrative(rows[2]) )
               => answer = C_AnswerOf(rows[1])
            /\ (\E j \in 1..Len(rows) : answer = C_AnswerOf(rows[j]))
               => \E m \in 1..Len(rows) :
                     /\ answer = C_AnswerOf(rows[m])
                     /\ \A i \in 1..(m - 1) :
                           \/ C_ConfidenceRank(rows[i]) # C_ConfidenceRank(rows[m])
                           \/ C_HasCitations(rows[i]) # C_HasCitations(rows[m])
                           \/ C_HasNarrative(rows[i]) # C_HasNarrative(rows[m])

\* two rows of one key tie on all three keys, differ in their response, and
\* the first of them was returned
C11_Witness ==
    /\ C_Resolved
    /\ \E k \in C_SignalKeys \cap DOMAIN answers_by_key :
          LET rows == answers_by_key[k] IN
          /\ Len(rows) = 2
          /\ C_SignalRows = Range(rows)
          /\ C_ConfidenceRank(rows[1]) = C_ConfidenceRank(rows[2])
          /\ C_HasCitations(rows[1]) = C_HasCitations(rows[2])
          /\ C_HasNarrative(rows[1]) = C_HasNarrative(rows[2])
          /\ rows[1].raw_response # rows[2].raw_response
          /\ answer = C_AnswerOf(rows[1])

\* the tie-break key of a SignalAnswer
C_AnswerKey(a) ==
    << CASE StartsWith(Lower(a.confidence), "high") -> 3
         [] StartsWith(Lower(a.confidence), "medium") -> 2
         [] StartsWith(Lower(a.confidence), "low") -> 1
         [] OTHER -> 0,
       IF Len(a.citations) > 0 THEN 1 ELSE 0,
       IF a.narrative # "" THEN 1 ELSE 0 >>

C_RowKey(row) ==
    << C_ConfidenceRank(row),
       IF C_HasCitations(row) THEN 1 ELSE 0,
       IF C_HasNarrative(row) THEN 1 ELSE 0 >>

\* the rows stored under the keys of one source
C_RowsOfSource(src) ==
    UNION { Range(answers_by_key[k]) :
            k \in { key(src.sheet, q) : q \in Range(src.question_ids) } \cap DOMAIN answers_by_key }

\* C12 as claimed: the resolver returns the best candidate among the rows of
\* every source of the signal, and none only if no source has a candidate.
C12_BestAmongAllSources ==
    C_Resolved =>
        /\ (answer = NoneDict) <=> (C_SignalRows = {})
        /\ answer # NoneDict =>
              /\ \E r \in C_SignalRows : answer = C_AnswerOf(r)
              /\ \A r \in C_SignalRows : ~C10_KeyLess(C_AnswerKey(answer), C_RowKey(r))

\* C12 amended: the sources are a priority list; the resolver returns the
\* best candidate of the first source, in registry order, that has any
\* matching row, and none only if no source has a candidate.
C12_FirstSourceWithRowsDecides ==
    C_Resolved =>
        LET sources == get_sources(asked.signal)
            with_rows == { i \in 1..Len(sources) : C_RowsOfSource(sources[i]) # {} }
        IN  /\ (answer = NoneDict) <=> (with_rows = {})
            /\ with_rows # {} =>
                  LET first == CHOOSE i \in with_rows : \A j \in with_rows : i <= j
                      rows == C_RowsOfSource(sources[first])
                  IN  /\ answer.sheet = sources[first].sheet
                      /\ \E r \in rows : answer = answer_of_row(asked.signal, sources[first], r)
                      /\ \A r \in rows : ~C10_KeyLess(C_AnswerKey(answer), C_RowKey(r))

\* the first source holds a Low row, the second a High row, and the Low row
\* of the first source is returned
C12_Witness ==
    /\ C_Resolved
    /\ Len(get_sources(asked.signal)) = 2
    /\ \E r \in C_RowsOfSource(get_sources(asked.signal)[1]) : C_ConfidenceRank(r) = 1
    /\ \A r \in C_RowsOfSource(get_sources(asked.signal)[1]) : C_ConfidenceRank(r) = 1
    /\ \E r \in C_RowsOfSource(get_sources(asked.signal)[2]) : C_ConfidenceRank(r) = 3
    /\ answer # NoneDict
    /\ answer.sheet = SignalSheet
    /\ Lower(answer.confidence) = "low"

\* the rows stored under any (sheet, question-id alternative) of the sources
\* of the resolved signal; none when the store lacks its index
C13_StoredForSignal == IF answers_by_key = NoneDict THEN {} ELSE C_SignalRows

\* C13: resolving never raises: for every store (an empty one and one
\* without the answers_by_key index too) and every signal name (one that is
\* not in the registry too) the result is none exactly when no row is stored
\* under a key of the signal's sources, and otherwise a SignalAnswer whose
\* response_norm is the normalisation of the chosen row's raw response.
C13_NoneIffNothingStored ==
    asked # NoCall =>
        /\ (answer = NoneDict) <=> (C13_StoredForSignal = {})
        /\ answer # NoneDict =>
              /\ DOMAIN answer = { "signal", "sheet", "question_id", "raw_response",
                                   "response_norm", "confidence", "narrative", "citations",
                                   "numeric" }
              /\ answer.signal = asked.signal
              /\ \E r \in C13_StoredForSignal :
                    /\ answer.raw_response = r.raw_response
                    /\ answer.question_id = r.question_id
                    /\ answer.response_norm = normalise_raw_response(r.raw_response)

\* a signal of the registry was resolved against a store without its index
C13_Witness ==
    /\ asked # NoCall
    /\ answers_by_key = NoneDict
    /\ asked.signal \in DOMAIN SIGNAL_SOURCES
    /\ answer = NoneDict

RawResponseCells ==
    { None } \cup RawResponseTexts
        \cup { "  " \o t \o " " : t \in RawResponseTexts }
        \cup { Upper(t) : t \in RawResponseTexts }

normalise_cell ==
    /\ "raw" \in DOMAIN asked
    /\ answer = NoneDict
    /\ answer' = [ response_norm |-> normalise_raw_response(asked.raw) ]
    /\ UNCHANGED <<answers_by_key, asked, registry, token_category, inferred, calls, listing, report>>

InitNormalise ==
    /\ pc = "input"
    /\ band = 0
    /\ escs = << >>
    /\ tags = << >>
    /\ catalogue = "shipped"
    /\ ctx = << >>
    /\ reqs = << >>
    /\ cards = << >>
    /\ answers_by_key = << >>
    /\ asked \in { [ raw |-> cell ] : cell \in RawResponseCells }
    /\ answer = NoneDict
    /\ registry = "shipped"
    /\ token_category = NoneDict
    /\ inferred = NoCall
    /\ calls = 0
    /\ domain_stats = << >>
    /\ token_meta = NoTokenMeta
    /\ refiner = NoRefiner

NextNormalise == normalise_cell

SpecNormalise == InitNormalise /\ [][NextNormalise]_vars

\* the bucket of a cell by the documented rules, each rule with the
\* negation of the rules before it
C15_Bucket(raw) ==
    LET s == Lower(Strip(IF raw = None THEN "" ELSE raw))
        empty == s = ""
        na == s \in { "n/a", "na", "not applicable", "not-applicable" }
        unknown == \E k \in { "unknown", "unclear", "not disclosed", "not provided", "tbc",
                              "to be confirmed" } : Contains(s, k)
        yes == s \in { "yes", "y", "true" } \/ StartsWith(s, "yes")
        no == \/ s \in { "no", "n", "false" } \/ StartsWith(s, "no")
              \/ s \in { "none disclosed", "none identified", "none reported", "none known" }
              \/ StartsWith(s, "none disclosed") \/ StartsWith(s, "none identified")
        partial == \E k \in { "partial", "partially", "mixed", "limited", "some", "in part",
                              "incomplete" } : Contains(s, k)
    IN  CASE empty -> "unknown"
          [] ~empty /\ na -> "na"
          [] ~empty /\ ~na /\ unknown -> "unknown"
          [] ~empty /\ ~na /\ ~unknown /\ yes -> "yes"
          [] ~empty /\ ~na /\ ~unknown /\ ~yes /\ no -> "no"
          [] ~empty /\ ~na /\ ~unknown /\ ~yes /\ ~no /\ partial -> "partial"
          [] OTHER -> "other"

\* C15: normalise returns one of yes, no, partial, unknown, na, other for
\* every input, by the documented rules in their order, first match wins
\* (unknown markers before yes/no); "" -> unknown, "N/A" -> na,
\* "Yes, fully" -> yes, "partially disclosed" -> partial and
\* "no oracle, not disclosed" -> unknown.
C15_NormaliseByOrderedRules ==
    ("raw" \in DOMAIN asked /\ answer # NoneDict) =>
        /\ answer.response_norm \in { "yes", "no", "partial", "unknown", "na", "other" }
        /\ answer.response_norm = C15_Bucket(asked.raw)
        /\ asked.raw \in { None, "" } => answer.response_norm = "unknown"
        /\ asked.raw = "N/A" => answer.response_norm = "na"
        /\ asked.raw = "Yes, fully" => answer.response_norm = "yes"
        /\ asked.raw = "partially disclosed" => answer.response_norm = "partial"
        /\ asked.raw = "no oracle, not disclosed" => answer.response_norm = "unknown"

\* the answer that has an unknown marker behind a no prefix was normalised
C15_Witness ==
    /\ "raw" \in DOMAIN asked
    /\ asked.raw = "no oracle, not disclosed"
    /\ answer # NoneDict
    /\ answer.response_norm = "unknown"

(***************************************************************************)
(* Canonical token type                                                    *)
(***************************************************************************)
\* re.sub(r"\s+", " ", s): every run of white space becomes one blank
RECURSIVE collapse_spaces(_, _)
collapse_spaces(s, out) ==
    IF s = "" THEN out
    ELSE IF IsSpace(CharAt(s, 1))
         THEN collapse_spaces(Tail(s),
                  IF out # "" /\ CharAt(out, Len(out)) = " " THEN out ELSE out \o " ")
         ELSE collapse_spaces(Tail(s), out \o CharAt(s, 1))

\* mutant: a needle matches the whole text only
has_WholeText(txt, needles) == txt \in needles

\* has(txt, *needles)
has(txt, needles) == \E n \in needles : Contains(txt, n)

token_type_meta(primary, secondary, tc, rationale) ==
    [ primary |-> primary, secondary |-> secondary,
      confidence |-> Get(tc, "confidence", None),
      rationale |-> rationale ]

\* (token_type, meta) of the DDQ's A1.1 primary/secondary category
canonical_token_type_from_ddq(tc) ==
    IF tc = NoneDict \/ tc = << >>
    THEN [ token_type |-> "other",
           meta |-> [ primary |-> None, secondary |-> None, confidence |-> None,
                      rationale |-> "No A1.1 token category found in DDQ; defaulted to 'other'." ] ]
    ELSE
    LET primary == Strip(IF Get(tc, "primary", None) = None THEN "" ELSE tc.primary)
        secondary == Strip(IF Get(tc, "secondary", None) = None THEN "" ELSE tc.secondary)
        p == Lower(primary)
        s == Lower(secondary)
        cleaned_primary == Strip(collapse_spaces(primary, ""))
        cleaned_secondary == Strip(collapse_spaces(secondary, ""))
        result(token_type, rationale) ==
            [ token_type |-> token_type,
              meta |-> token_type_meta(primary, secondary, tc, rationale) ]
    IN  IF has(p, { "stablecoin" }) \/ has(s, { "stablecoin" })
        THEN IF has(p, { "algorithm", "algo" }) \/ has(s, { "algorithm", "algo" })
             THEN result("stablecoin_algorithmic",
                         "DDQ category indicates a stablecoin with algorithmic characteristics.")
             ELSE result("stablecoin_fiat",
                         "DDQ category indicates a reserve/fiat-backed stablecoin (default stablecoin mapping).")
        ELSE IF has(p, { "wrapped" }) \/ has(s, { "wrapped" })
        THEN result("wrapped", "DDQ category indicates a wrapped token.")
        ELSE IF \/ has(p, { "security" }) \/ has(p, { "tokenised" })
                \/ has(s, { "security" }) \/ has(s, { "tokenised" })
        THEN result("security_token", "DDQ category indicates a security/tokenised asset.")
        ELSE IF has(p, { "meme" }) \/ has(s, { "meme" })
        THEN result("memecoin", "DDQ category indicates a memecoin.")
        ELSE IF has(p, { "defi" }) \/ has(s, { "defi" })
        THEN result("defi", "DDQ category indicates a DeFi protocol token.")
        ELSE IF has(p, { "native" }) /\ has(p, { "l1", "layer 1", "layer-1" })
        THEN result("native_l1", "DDQ category indicates a native Layer-1 network token.")
        ELSE IF has(p, { "native" }) /\ has(p, { "l2", "layer 2", "layer-2" })
        THEN result("native_l2", "DDQ category indicates a native Layer-2 network token.")
        ELSE IF \/ has(p, { "govern" }) /\ has(s, { "utility" })
                \/ has(p, { "govern" }) /\ has(p, { "utility" })
        THEN result("governance_utility",
                    "DDQ category indicates combined governance + utility role.")
        ELSE IF has(p, { "govern" })
        THEN result("governance", "DDQ category indicates a governance token role.")
        ELSE IF has(p, { "utility" })
        THEN result("utility", "DDQ category indicates a utility token role.")
        ELSE [ token_type |-> "other",
               meta |-> token_type_meta(
                            IF cleaned_primary = "" THEN None ELSE cleaned_primary,
                            IF cleaned_secondary = "" THEN None ELSE cleaned_secondary,
                            tc,
                            "DDQ category did not match known mappings; defaulted to 'other'.") ]

(***************************************************************************)
(* Rule-based risk tag inference                                           *)
(***************************************************************************)
\* mutant: the na bucket counts as a known answer
is_unknownish_NaKnown(ans) ==
    IF ans = NoneDict THEN TRUE
    ELSE \/ ans.response_norm \in { "unknown" }
         \/ normalise_raw_response(ans.raw_response) = "unknown"

is_unknownish(ans) ==
    IF ans = NoneDict THEN TRUE
    ELSE \/ ans.response_norm \in { "unknown", "na" }
         \/ normalise_raw_response(ans.raw_response) = "unknown"

pct(ans) == IF ans = NoneDict THEN NoneDict ELSE ans.numeric

\* _pct(ans) or 0.0
pct_or_zero(ans) ==
    IF pct(ans) = NoneDict \/ pct(ans).hundredths = 0 THEN 0 ELSE pct(ans).hundredths

max(a, b, c) == CHOOSE m \in { a, b, c } : \A x \in { a, b, c } : x <= m

\* the evidence entries of one add call: asdict(a), with the note if any,
\* for every answer that is not None
RECURSIVE evidence_of(_, _, _, _)
evidence_of(ans, note, i, ev) ==
    IF i > Len(ans) THEN ev
    ELSE evidence_of(ans, note, i + 1,
            IF ans[i] = NoneDict THEN ev
            ELSE Append(ev, IF note # "" THEN [ k \in DOMAIN ans[i] \cup { "note" } |->
                                                  IF k = "note" THEN note ELSE ans[i][k] ]
                            ELSE ans[i]))

\* one call add(tag, *ans, note=note)
Emission(tag, ans, note) == [ tag |-> tag, ans |-> ans, note |-> note ]

\* mutant: the evidence of a tag is assigned, not extended
add_Overwrite(st, tag, ans, note) ==
    LET ev == evidence_of(ans, note, 1, << >>) IN
    [ tags |-> st.tags \cup { tag },
      evidence |->
          IF ev = << >> THEN st.evidence
          ELSE [ t \in DOMAIN st.evidence \cup { tag } |->
                   IF t = tag THEN ev ELSE st.evidence[t] ] ]

\* add: the tag joins the set, the evidence list of the tag is extended
add(st, tag, ans, note) ==
    LET ev == evidence_of(ans, note, 1, << >>) IN
    [ tags |-> st.tags \cup { tag },
      evidence |->
          IF ev = << >> THEN st.evidence
          ELSE [ t \in DOMAIN st.evidence \cup { tag } |->
                   IF t = tag THEN Get(st.evidence, tag, << >>) \o ev
                   ELSE st.evidence[t] ] ]

RECURSIVE add_all(_, _, _)
add_all(st, emissions, i) ==
    IF i > Len(emissions) THEN st
    ELSE add_all(add(st, emissions[i].tag, emissions[i].ans, emissions[i].note),
                 emissions, i + 1)

When(cond, emissions) == IF cond THEN emissions ELSE << >>

\* mutant: the treasury threshold is exclusive
treasury_concentrated_Exclusive(r) == r > 25 * 100

\* r >= 25, in hundredths
treasury_concentrated(r) == r >= 25 * 100

\* (t + i + r) >= 60 or max(t, i, r) >= 35, in hundredths
tokenomics_concentrated(t, i, r) == (t + i + r) >= 60 * 100 \/ max(t, i, r) >= 35 * 100

\* mutant: only DeFi tokens depend on smart contracts
smart_contract_dependent_DefiOnly(token_type) == token_type \in { "defi" }

\* token_type in {"defi", "governance", "governance_utility", "utility"}
smart_contract_dependent(token_type) ==
    token_type \in { "defi", "governance", "governance_utility", "utility" }

\* mutant: only the yes bucket counts as upgradeable
upgradeable_YesOnly(upgradeability) ==
    upgradeability # NoneDict /\ upgradeability.response_norm \in { "yes" }

\* upgradeability and upgradeability.response_norm in {"yes", "partial", "other"}
upgradeable(upgradeability) ==
    upgradeability # NoneDict /\ upgradeability.response_norm \in { "yes", "partial", "other" }

\* mutant: the na bucket is not excluded
oracle_dependent_AnyBucket(oracle_rel) ==
    /\ oracle_rel # NoneDict
    /\ ~Contains(Lower(oracle_rel.raw_response), "no oracle")
    /\ ~Contains(Lower(oracle_rel.raw_response), "not oracle")

\* oracle_rel and oracle_rel.response_norm not in {"na"}, and neither
\* "no oracle" nor "not oracle" in the lower-cased raw response
oracle_dependent(oracle_rel) ==
    /\ oracle_rel # NoneDict
    /\ oracle_rel.response_norm \notin { "na" }
    /\ ~Contains(Lower(oracle_rel.raw_response), "no oracle")
    /\ ~Contains(Lower(oracle_rel.raw_response), "not oracle")

\* the add calls of one run, in the order of the code
emissions_of(token_type, sig) ==
    LET privileged_scope == sig.privileged_functions_scope
        pause_controls == sig.emergency_pause_controls
        privileged_disclosure == sig.privileged_roles_disclosure
        timelock == sig.timelock_present
        upgradeability == sig.upgradeability_profile
        oracle_rel == sig.oracle_reliability
        liquidity_conc == sig.liquidity_concentration
        exit_feas == sig.exit_feasibility
        wash_flags == sig.wash_trading_flags
        team_alloc == sig.team_allocation_pct
        inv_alloc == sig.investor_allocation_pct
        tres_alloc == sig.treasury_allocation_pct
        unlock_disclosed == sig.unlock_schedule_disclosed
        unlock_next6 == sig.unlock_next_6m_pct
        unlock_milestone == sig.unlocks_milestone_link
        gov_whitepaper == sig.governance_described_in_whitepaper
        gov_disputes == sig.prior_governance_disputes
        sanc_designated == sig.sanctions_designated_wallets
        sanc_enforcement == sig.sanctions_enforcement_actions
        sanc_geo_volume == sig.sanctions_high_risk_geo_volume
        sanc_structural == sig.sanctions_structural_exposure
        sanc_screening == sig.sanctions_screening_controls
        present(a) == a # NoneDict
        low(a) == Lower(a.raw_response)
        t == pct_or_zero(team_alloc)
        i == pct_or_zero(inv_alloc)
        r == pct_or_zero(tres_alloc)
        unknown_count ==
            Cardinality({ n \in 1..5 :
                is_unknownish(<< privileged_scope, pause_controls, privileged_disclosure,
                                 oracle_rel, unlock_next6 >>[n]) })
        narrative_cue(a) ==
            When(present(a) /\ has_negative_cues(a.narrative),
                 << Emission("poor_disclosure_quality_risk", << a >>, "") >>)
    IN
    \* governance and control
    When(\/ is_unknownish(privileged_scope)
         \/ is_unknownish(privileged_disclosure)
         \/ is_unknownish(pause_controls)
         \/ present(privileged_disclosure) /\ privileged_disclosure.response_norm \in { "partial" },
         << Emission("admin_key_centralisation_risk",
                     << privileged_scope, privileged_disclosure, pause_controls >>,
                     "Privileged controls exist but scope/disclosure/controls are incomplete or unclear.") >>)
    \o When(upgradeable(upgradeability),
            << Emission("upgradeability_risk", << upgradeability, timelock >>,
                        "Contracts appear upgradeable (even if limited).") >>
            \o When(present(timelock) /\ timelock.response_norm \in { "no", "unknown", "partial" },
                    << Emission("timelock_absence_risk", << timelock >>,
                                "Upgrade/parameter changes may not be adequately timelocked.") >>))
    \o When(present(gov_disputes) /\ gov_disputes.response_norm = "yes",
            << Emission("governance_dispute_history_risk", << gov_disputes >>, "") >>)
    \* technical and protocol
    \o When(smart_contract_dependent(token_type),
            << Emission("smart_contract_risk", << >>, "") >>)
    \o When(oracle_dependent(oracle_rel),
            << Emission("oracle_dependency_risk", << oracle_rel >>, "") >>
            \o When(oracle_rel.response_norm \in { "partial", "unknown" },
                    << Emission("defi_liquidation_mechanism_risk", << oracle_rel >>,
                                "Oracle design/reliability may affect liquidations.") >>))
    \o When(\/ present(oracle_rel)
               /\ has(low(oracle_rel), { "mixed", "custom", "multi", "oracle-agnostic" })
            \/ is_unknownish(privileged_scope) /\ is_unknownish(pause_controls),
            << Emission("complex_protocol_design_risk",
                        << oracle_rel, privileged_scope, pause_controls >>, "") >>)
    \* market integrity and liquidity
    \o When(present(liquidity_conc) /\ has(low(liquidity_conc), { "concentrated", "few" }),
            << Emission("liquidity_concentration_risk", << liquidity_conc >>, "") >>)
    \o When(present(exit_feas)
              /\ has(low(exit_feas), { "significant care", "difficult", "limited" }),
            << Emission("low_liquidity_risk", << exit_feas >>, "") >>)
    \o When(present(wash_flags)
              /\ has(low(wash_flags), { "significant", "concern", "flags", "elevated" })
              /\ ~Contains(low(wash_flags), "no significant"),
            << Emission("wash_trading_risk", << wash_flags >>, "") >>)
    \* tokenomics and supply overhang; 25, 60 and 35 per cent in hundredths
    \o When(treasury_concentrated(r),
            << Emission("treasury_concentration_risk", << tres_alloc >>,
                        "Large treasury/foundation allocation suggests concentration risk.") >>)
    \o When(tokenomics_concentrated(t, i, r),
            << Emission("tokenomics_concentration_risk", << team_alloc, inv_alloc, tres_alloc >>,
                        "Large insider/treasury allocations may increase concentration and supply overhang risk.") >>)
    \o When(present(unlock_disclosed) /\ unlock_disclosed.response_norm \in { "no", "unknown" },
            << Emission("unlock_schedule_uncertainty_risk", << unlock_disclosed >>, "") >>)
    \o When(present(unlock_next6) /\ unlock_next6.response_norm \in { "unknown" },
            << Emission("unlock_schedule_uncertainty_risk", << unlock_next6 >>,
                        "Near-term unlock percentage is unclear.") >>)
    \o When(present(unlock_milestone) /\ unlock_milestone.response_norm = "no",
            << Emission("insider_unlocks_risk", << unlock_milestone >>,
                        "Unlocks are not tied to adoption milestones.") >>)
    \* disclosure and transparency
    \o When(present(gov_whitepaper) /\ gov_whitepaper.response_norm = "no",
            << Emission("governance_documentation_gaps_risk", << gov_whitepaper >>, "") >>)
    \o When(unknown_count >= 2,
            << Emission("poor_disclosure_quality_risk", << >>,
                        "Multiple key DDQ controls/metrics are unknown or unclear.") >>)
    \o narrative_cue(privileged_scope) \o narrative_cue(pause_controls)
    \o narrative_cue(privileged_disclosure) \o narrative_cue(oracle_rel)
    \* sanctions and financial crime
    \o When(present(sanc_designated) /\ sanc_designated.response_norm \in { "yes", "partial" },
            << Emission("sanctions_designated_wallets_risk", << sanc_designated >>,
                        "Token/project has been linked to designated wallets/entities.") >>)
    \o When(present(sanc_enforcement) /\ sanc_enforcement.response_norm \in { "yes", "partial" },
            << Emission("sanctions_enforcement_watch_risk", << sanc_enforcement >>,
                        "Public enforcement / regulatory actions referencing sanctions risk.") >>)
    \o When(present(sanc_structural)
              /\ \/ has(low(sanc_structural), { "high", "structural", "material" })
                 \/ sanc_structural.response_norm \in { "yes", "partial", "unknown" },
            << Emission("sanctions_exposure_risk", << sanc_structural >>,
                        "DDQ indicates structural sanctions / high-risk ecosystem exposure.") >>)
    \o When(present(sanc_geo_volume)
              /\ \/ has(low(sanc_geo_volume), { "high", "material", "meaningful", "unknown" })
                 \/ sanc_geo_volume.response_norm \in { "partial", "unknown" },
            << Emission("sanctions_exposure_risk", << sanc_geo_volume >>,
                        "DDQ indicates non-trivial or uncertain exposure to high-risk jurisdictions.") >>)
    \o When(present(sanc_screening)
              /\ sanc_screening.response_norm \in { "no", "partial", "unknown" },
            << Emission("sanctions_screening_controls_risk", << sanc_screening >>,
                        "Sanctions screening controls appear partial/unclear or absent.") >>)

\* the signals the inference reads
InferenceSignals ==
    { "privileged_functions_scope", "emergency_pause_controls", "privileged_roles_disclosure",
      "timelock_present", "upgradeability_profile", "oracle_reliability",
      "liquidity_concentration", "exit_feasibility", "wash_trading_flags",
      "team_allocation_pct", "investor_allocation_pct", "treasury_allocation_pct",
      "unlock_schedule_disclosed", "unlock_next_6m_pct", "unlocks_milestone_link",
      "governance_described_in_whitepaper", "prior_governance_disputes",
      "sanctions_designated_wallets", "sanctions_enforcement_actions",
      "sanctions_high_risk_geo_volume", "sanctions_structural_exposure",
      "sanctions_screening_controls" }

\* mutant: every emitted tag is appended to a list, which is returned as it is
returned_tags_AsEmitted(st, emissions) ==
    [ i \in 1..Len(emissions) |-> emissions[i].tag ]

\* return sorted(tags)
returned_tags(st, emissions) == SortedStrings(st.tags)

\* calls of infer_risk_tags_from_ddq on one parsed DDQ
MaxCalls == 2

\* mutant: the evidence map of the parsed DDQ is taken up and extended
new_evidence_Carried(parsed_ddq) == Get(parsed_ddq, "_tag_evidence", << >>)

\* evidence: Dict[str, List[Dict[str, Any]]] = {}
new_evidence(parsed_ddq) == << >>

\* the returned list and the two entries the run writes into parsed_ddq
infer_risk_tags_from_ddq(parsed_ddq) ==
    LET inferred_type == canonical_token_type_from_ddq(Get(parsed_ddq, "token_category", NoneDict))
        sig == [ n \in InferenceSignals |-> get_signal_answer(parsed_ddq, n) ]
        emissions == emissions_of(inferred_type.token_type, sig)
        st == add_all([ tags |-> {}, evidence |-> new_evidence(parsed_ddq) ], emissions, 1)
    IN  [ called |-> TRUE,
          tags |-> returned_tags(st, emissions),
          _tag_evidence |-> st.evidence,
          _token_type_inferred |->
              [ k \in { "token_type" } \cup DOMAIN inferred_type.meta |->
                  IF k = "token_type" THEN inferred_type.token_type ELSE inferred_type.meta[k] ] ]

\* a call of infer_risk_tags_from_ddq on the parsed DDQ
infer_risk_tags ==
    /\ inferred = NoCall
    /\ asked = NoCall
    /\ inferred' = infer_risk_tags_from_ddq(ParsedDdq)
    /\ calls' = calls + 1
    /\ UNCHANGED <<answers_by_key, asked, answer, registry, token_category, listing, report>>

\* the parsed DDQ with the two entries a call has written into it
MutatedDdq ==
    [ k \in DOMAIN ParsedDdq \cup { "_tag_evidence", "_token_type_inferred" } |->
        IF k \in DOMAIN ParsedDdq THEN ParsedDdq[k] ELSE inferred[k] ]

\* a further call of infer_risk_tags_from_ddq on the parsed DDQ that an
\* earlier call has written into
infer_risk_tags_again ==
    /\ inferred # NoCall
    /\ asked = NoCall
    /\ calls < MaxCalls
    /\ inferred' = infer_risk_tags_from_ddq(MutatedDdq)
    /\ calls' = calls + 1
    /\ UNCHANGED <<answers_by_key, asked, answer, registry, token_category, listing, report>>

(***************************************************************************)
(* SpecInference: answer rows are parsed into the store, then the risk     *)
(* tags are inferred from the parsed DDQ                                   *)
(***************************************************************************)
MaxInferenceRows == 2

SanctionsSheet == "AML & Sanctions Risk"

\* parsed_ddq["token_category"]: no A1.1 row, or its primary/secondary pair
TokenCategories ==
    { NoneDict,
      [ primary |-> "Governance token", secondary |-> " Utility ", confidence |-> "High" ] }

\* <<sheet, Question_ID, Raw_Response, Confidence, Narrative, Citations>> cells
InferenceRowCells ==
    { << SignalSheet, "A4.3", "Yes", "High", None, None >>,
      << SignalSheet, "C3.1", "Unknown", "High", None, None >>,
      << SignalSheet, "B3.1", "Yes", "High", "Scope of the admin keys is unclear.", None >>,
      << SignalSheet, "B3.2", "Yes", "Medium", "Cannot confirm who may pause.", None >>,
      << SignalSheet, "A4.2", "Mixed oracle design, partially documented", "low", None,
         "https://docs.example/oracles" >>,
      << FundamentalsSheet, "E2.4", "Unknown", "Medium", None, None >>,
      << FundamentalsSheet, "E2.5", "Not disclosed", "low", None, None >>,
      << SanctionsSheet, "D1.2", "unknown", "High", None, None >>,
      << SanctionsSheet, "B2.3", "High structural exposure", "High", None, None >>,
      << SanctionsSheet, "B2.1", "Material", "Medium", None, None >> }

InitInference ==
    /\ pc = "input"
    /\ band = 0
    /\ escs = << >>
    /\ tags = << >>
    /\ catalogue = "shipped"
    /\ ctx = << >>
    /\ reqs = << >>
    /\ cards = << >>
    /\ answers_by_key = << >>
    /\ asked = NoCall
    /\ answer = NoneDict
    /\ registry = "shipped"
    /\ token_category \in TokenCategories
    /\ inferred = NoCall
    /\ calls = 0
    /\ domain_stats = << >>
    /\ token_meta = NoTokenMeta
    /\ refiner = NoRefiner

NextInference ==
    \/ \E row \in InferenceRowCells :
          /\ inferred = NoCall
          /\ Cardinality(StoredRows) < MaxInferenceRows
          /\ parse_question_response(row[1], row[2], row[3], row[4], row[5], row[6])
    \/ infer_risk_tags

SpecInference == InitInference /\ [][NextInference]_vars

(***************************************************************************)
(* Claims on the tag inference (SpecInference)                             *)
(***************************************************************************)
\* the add calls of the run that produced inferred
C_Emissions ==
    emissions_of(canonical_token_type_from_ddq(token_category).token_type,
                 [ n \in InferenceSignals |-> get_signal_answer(ParsedDdq, n) ])

\* C16: the returned tag list is in ascending order and holds each tag
\* identifier once, however many rules emitted the tag.
C16_SortedAndDeduplicated ==
    inferred # NoCall =>
        /\ \A i \in 1..(Len(inferred.tags) - 1) :
              StrLess(inferred.tags[i], inferred.tags[i + 1])
        /\ \A i, j \in 1..Len(inferred.tags) :
              inferred.tags[i] = inferred.tags[j] => i = j
        /\ \A em \in { C_Emissions } :
              Range(inferred.tags) = { em[i].tag : i \in 1..Len(em) }

\* a tag was emitted by two rules, behind a tag that sorts after it
C16_Witness ==
    /\ inferred # NoCall
    /\ \E em \in { C_Emissions } :
          \E i, j, k \in 1..Len(em) :
              /\ i < j /\ j < k
              /\ em[j].tag = em[k].tag
              /\ StrLess(em[j].tag, em[i].tag)
    /\ Len(inferred.tags) >= 3

\* the answers_by_key index with one more row under the key of a signal,
\* whose response is "Unknown"
C17_WithUnknownRow(signal_name) ==
    LET src == SIGNAL_SOURCES[signal_name][1]
        k == key(src.sheet, src.question_ids[1])
        rec == [ sheet |-> src.sheet, question_id |-> src.question_ids[1],
                 raw_response |-> "Unknown", confidence |-> "",
                 narrative_justification |-> "", source_citations |-> << >>,
                 row_number |-> Cardinality(StoredRows) + 2 ]
    IN  [ j \in DOMAIN answers_by_key \cup { k } |-> IF j = k THEN << rec >> ELSE answers_by_key[j] ]

\* C17: the rules whose condition names the unknown bucket treat an absent
\* signal as a present one with an unknown response: for timelock-absence,
\* unlock-schedule-uncertainty and sanctions-screening-controls the tags of
\* a run in which the signal is absent are the tags of the run with the
\* signal present and unknown, all other answers equal.
C17_AbsentAsUnknown ==
    inferred # NoCall =>
        \A signal_name \in { "timelock_present", "unlock_schedule_disclosed",
                             "unlock_next_6m_pct", "sanctions_screening_controls" } :
            get_signal_answer(ParsedDdq, signal_name) = NoneDict =>
                inferred.tags =
                    infer_risk_tags_from_ddq(
                        [ answers_by_key |-> C17_WithUnknownRow(signal_name),
                          token_category |-> token_category ]).tags

\* the evidence entries an add call contributes
C20_EntriesOf(e) == Range(evidence_of(e.ans, e.note, 1, << >>))

\* C20: when several rules emit one tag in a run, the evidence recorded for
\* the tag is the union of the evidence of every emission (both unlock
\* signals for unlock_schedule_uncertainty_risk, both sanctions checks for
\* sanctions_exposure_risk, every narrative for
\* poor_disclosure_quality_risk), and every key of the evidence map is a tag
\* of the returned list.
C20_EvidenceAccumulates ==
    inferred # NoCall =>
        LET evidence == inferred._tag_evidence
            resolved(n) == get_signal_answer(ParsedDdq, n)
            signals_in(tag) ==
                IF tag \in DOMAIN evidence
                THEN { evidence[tag][i].signal : i \in 1..Len(evidence[tag]) } ELSE {}
        IN  /\ DOMAIN evidence \subseteq Range(inferred.tags)
            /\ \A em \in { C_Emissions } :
                  \A tag \in Range(inferred.tags) :
                      \A entries \in { UNION { C20_EntriesOf(em[i]) :
                                                i \in { j \in 1..Len(em) : em[j].tag = tag } } } :
                          /\ tag \in DOMAIN evidence => Range(evidence[tag]) = entries
                          /\ tag \notin DOMAIN evidence => entries = {}
            /\ ( /\ resolved("unlock_schedule_disclosed") # NoneDict
                 /\ resolved("unlock_next_6m_pct") # NoneDict
                 /\ resolved("unlock_schedule_disclosed").response_norm = "unknown"
                 /\ resolved("unlock_next_6m_pct").response_norm = "unknown" )
               => signals_in("unlock_schedule_uncertainty_risk")
                      = { "unlock_schedule_disclosed", "unlock_next_6m_pct" }
            /\ ( /\ resolved("sanctions_structural_exposure") # NoneDict
                 /\ resolved("sanctions_high_risk_geo_volume") # NoneDict
                 /\ Contains(Lower(resolved("sanctions_structural_exposure").raw_response), "high")
                 /\ Contains(Lower(resolved("sanctions_high_risk_geo_volume").raw_response), "material") )
               => signals_in("sanctions_exposure_risk")
                      = { "sanctions_structural_exposure", "sanctions_high_risk_geo_volume" }
            /\ signals_in("poor_disclosure_quality_risk") =
                  { n \in { "privileged_functions_scope", "emergency_pause_controls",
                            "privileged_roles_disclosure", "oracle_reliability" } :
                      /\ resolved(n) # NoneDict
                      /\ \E cue \in { "unclear", "unknown", "not disclosed", "not provided",
                                      "cannot confirm", "no evidence", "insufficient",
                                      "incomplete", "fallback error" } :
                            Contains(Lower(resolved(n).narrative), cue) }

\* both unlock signals were unknown and the tag carries the evidence of both
C20_Witness ==
    /\ inferred # NoCall
    /\ "unlock_schedule_uncertainty_risk" \in DOMAIN inferred._tag_evidence
    /\ Len(inferred._tag_evidence["unlock_schedule_uncertainty_risk"]) = 2
    /\ { inferred._tag_evidence["unlock_schedule_uncertainty_risk"][i].signal : i \in 1..2 }
          = { "unlock_schedule_disclosed", "unlock_next_6m_pct" }

(***************************************************************************)
(* SpecTokenomics: the allocation rows E2.1, E2.2 and E2.3 are parsed,     *)
(* then the risk tags are inferred                                         *)
(***************************************************************************)
MaxAllocationRows == 3

\* <<Question_ID, Raw_Response>> cells of the allocation questions
AllocationCells ==
    { << "E2.1", "10" >>, << "E2.1", "20%" >>, << "E2.1", "35.0 % of supply" >>,
      << "E2.2", "10%" >>, << "E2.2", "20" >>, << "E2.2", "34.99" >>,
      << "E2.3", "10" >>, << "E2.3", "20 %" >>, << "E2.3", "24.99%" >>, << "E2.3", ">=25" >>,
      << "E2.3", "Not disclosed" >> }

InitTokenomics ==
    /\ pc = "input"
    /\ band = 0
    /\ escs = << >>
    /\ tags = << >>
    /\ catalogue = "shipped"
    /\ ctx = << >>
    /\ reqs = << >>
    /\ cards = << >>
    /\ answers_by_key = << >>
    /\ asked = NoCall
    /\ answer = NoneDict
    /\ registry = "shipped"
    /\ token_category = NoneDict
    /\ inferred = NoCall
    /\ calls = 0
    /\ domain_stats = << >>
    /\ token_meta = NoTokenMeta
    /\ refiner = NoRefiner

NextTokenomics ==
    \/ \E cell \in AllocationCells :
          /\ inferred = NoCall
          /\ Cardinality(StoredRows) < MaxAllocationRows
          /\ parse_question_response(FundamentalsSheet, cell[1], cell[2], "High", None, None)
    \/ infer_risk_tags

SpecTokenomics == InitTokenomics /\ [][NextTokenomics]_vars

\* the percentage a cell text states, in hundredths; 0 without a number
C18_Hundredths(raw) ==
    CASE raw = "10" -> 1000 [] raw = "10%" -> 1000
      [] raw = "20" -> 2000 [] raw = "20%" -> 2000 [] raw = "20 %" -> 2000
      [] raw = "24.99%" -> 2499 [] raw = ">=25" -> 2500
      [] raw = "34.99" -> 3499 [] raw = "35.0 % of supply" -> 3500
      [] OTHER -> 0

\* the allocation percentage of a signal: that of its resolved row, 0 when
\* the signal is absent
C18_Allocation(signal_name) ==
    LET a == get_signal_answer(ParsedDdq, signal_name) IN
    IF a = NoneDict THEN 0 ELSE C18_Hundredths(a.raw_response)

MaxCounterRows == 2

CounterFlags == { "Review Required", "Escalate to committee", "No Review", "Pending", "" }

\* the five domains of the Master_Summary sheet, a domain that matches no
\* bucket and two that match several
CounterDomains ==
    DomainNames \cup { "Operations", "Legal & Governance", "PROTOCOL ESG" }

CounterRows == { Esc(f, d) : f \in CounterFlags, d \in CounterDomains }

InitCounters == InitWith({3}, { << >> }, { "shipped" })

NextCounters ==
    \/ build_report_snapshot
    \/ \E row \in CounterRows : Len(escs) < MaxCounterRows /\ AddEscalation(row)

SpecCounters == InitCounters /\ [][NextCounters]_vars

\* the bucket of a domain name: case-insensitive substring match, with the
\* precedence ESG, technical, governance, regulatory
C19_Bucket(domain_name) ==
    LET d == Lower(domain_name) IN
    CASE Contains(d, "strategic") \/ Contains(d, "esg") \/ Contains(d, "reputational") -> "esg"
      [] OTHER ->
    CASE Contains(d, "technical") \/ Contains(d, "protocol") -> "technical"
      [] OTHER ->
    CASE Contains(d, "token fundamentals") \/ Contains(d, "governance") -> "governance"
      [] OTHER ->
    CASE Contains(d, "regulatory") \/ Contains(d, "legal") -> "regulatory"
      [] OTHER -> "none"

\* the real escalations of the rows, and those of one bucket
C19_Real == { i \in 1..Len(escs) : C2_RealTrigger(escs[i].flag) }

C19_RealOf(bucket) == { i \in C19_Real : C19_Bucket(escs[i].domain_name) = bucket }

\* C19: every real escalation adds 1 to total_escalations and 1 to at most
\* one of the ESG, technical, governance and regulatory counters, the one
\* of its domain by precedence; a domain that matches none adds to the
\* total only; the four counters sum to at most the total; a row that is
\* not a real escalation changes no counter.
C19_CountersBucketRealEscalations ==
    pc = "built" =>
        /\ ctx.total_escalations = Cardinality(C19_Real)
        /\ ctx.esg_escalations = Cardinality(C19_RealOf("esg"))
        /\ ctx.technical_escalations = Cardinality(C19_RealOf("technical"))
        /\ ctx.governance_escalations = Cardinality(C19_RealOf("governance"))
        /\ ctx.reg_escalations = Cardinality(C19_RealOf("regulatory"))
        /\ ctx.esg_escalations + ctx.technical_escalations + ctx.governance_escalations
              + ctx.reg_escalations <= ctx.total_escalations

(***************************************************************************)
(* SpecAdminKeys: the rows of the privileged-functions-scope (B3.1),       *)
(* pause-controls (B3.2) and privileged-roles-disclosure (C1.1) questions  *)
(* are parsed, each question answered at most once, then the risk tags are *)
(* inferred                                                                *)
(***************************************************************************)
MaxAdminKeyRows == 3

\* <<Question_ID, Raw_Response>> cells, one text for each bucket
AdminKeyCells ==
    { << q, raw >> : q \in { "B3.1", "B3.2", "C1.1" },
                     raw \in { "Yes", "No", "partially disclosed", "Unknown", "N/A",
                               "Timelock of 48h" } }

InitAdminKeys == InitInference /\ token_category = NoneDict

NextAdminKeys ==
    \/ \E cell \in AdminKeyCells :
          /\ inferred = NoCall
          /\ Cardinality(StoredRows) < MaxAdminKeyRows
          /\ key(SignalSheet, cell[1]) \notin DOMAIN answers_by_key
          /\ parse_question_response(SignalSheet, cell[1], cell[2], "High", None, None)
    \/ infer_risk_tags

SpecAdminKeys == InitAdminKeys /\ [][NextAdminKeys]_vars

\* the bucket of the only row stored for a question of the technical sheet;
\* "absent" when the question has no row
C21_BucketOf(qid) ==
    LET k == key(SignalSheet, qid) IN
    IF k \in DOMAIN answers_by_key
    THEN C15_Bucket(answers_by_key[k][1].raw_response) ELSE "absent"

\* C21: admin_key_centralisation_risk is emitted iff one of the
\* privileged-functions-scope, privileged-roles-disclosure and
\* pause-controls signals is absent or has the bucket unknown or na, or the
\* privileged-roles-disclosure bucket is partial.
C21_AdminKeyRule ==
    inferred # NoCall =>
        ( "admin_key_centralisation_risk" \in Range(inferred.tags)
          <=> \/ \E qid \in { "B3.1", "C1.1", "B3.2" } :
                    C21_BucketOf(qid) \in { "absent", "unknown", "na" }
              \/ C21_BucketOf("C1.1") = "partial" )

\* the three signals are present, none is unknown or na, the disclosure is
\* partial, and the tag is emitted
C21_Witness ==
    /\ inferred # NoCall
    /\ C21_BucketOf("B3.1") \in { "yes", "no", "partial", "other" }
    /\ C21_BucketOf("B3.2") \in { "yes", "no", "partial", "other" }
    /\ C21_BucketOf("C1.1") = "partial"
    /\ "admin_key_centralisation_risk" \in Range(inferred.tags)

(***************************************************************************)
(* SpecUpgradeability: the rows of the upgradeability (A4.3) and timelock  *)
(* (C3.1) questions are parsed, each question answered at most once, then  *)
(* the risk tags are inferred                                              *)
(***************************************************************************)
MaxUpgradeabilityRows == 2

\* <<Question_ID, Raw_Response>> cells, one text for each bucket
UpgradeabilityCells ==
    { << q, raw >> : q \in { "A4.3", "C3.1" },
                     raw \in { "Yes", "No", "partially disclosed", "Unknown", "N/A",
                               "Timelock of 48h" } }

InitUpgradeability == InitInference /\ token_category = NoneDict

NextUpgradeability ==
    \/ \E cell \in UpgradeabilityCells :
          /\ inferred = NoCall
          /\ Cardinality(StoredRows) < MaxUpgradeabilityRows
          /\ key(SignalSheet, cell[1]) \notin DOMAIN answers_by_key
          /\ parse_question_response(SignalSheet, cell[1], cell[2], "High", None, None)
    \/ infer_risk_tags

SpecUpgradeability == InitUpgradeability /\ [][NextUpgradeability]_vars

\* C22: upgradeability_risk is emitted iff the upgradeability signal is
\* present with the bucket yes, partial or other; timelock_absence_risk is
\* emitted iff upgradeability_risk is emitted and the timelock signal is
\* present with the bucket no, unknown or partial; timelock_absence_risk is
\* never in the output without upgradeability_risk.
C22_UpgradeabilityAndTimelock ==
    inferred # NoCall =>
        LET upgradeability == "upgradeability_risk" \in Range(inferred.tags)
            timelock_absence == "timelock_absence_risk" \in Range(inferred.tags)
        IN  /\ upgradeability <=> C21_BucketOf("A4.3") \in { "yes", "partial", "other" }
            /\ timelock_absence <=>
                  upgradeability /\ C21_BucketOf("C3.1") \in { "no", "unknown", "partial" }
            /\ timelock_absence => upgradeability

\* the contracts are upgradeable and the timelock answer is no: both tags
C22_Witness ==
    /\ inferred # NoCall
    /\ C21_BucketOf("A4.3") = "other"
    /\ C21_BucketOf("C3.1") = "no"
    /\ "upgradeability_risk" \in Range(inferred.tags)
    /\ "timelock_absence_risk" \in Range(inferred.tags)

(***************************************************************************)
(* SpecOracle: rows of the oracle-reliability question (A4.2) are parsed,  *)
(* then the risk tags are inferred                                         *)
(***************************************************************************)
MaxOracleRows == 2

\* <<Raw_Response, Confidence>> cells
OracleCells ==
    { << "N/A", "High" >>, << "Not applicable", "Medium" >>,
      << "n/a - no oracle", "High" >>, << "no oracle, not disclosed", "Medium" >>,
      << "Not oracle based", "High" >>,
      << "Unknown", "High" >>, << "Mixed", "Medium" >>, << "Yes", "High" >>,
      << "No", "low" >> }

InitOracle == InitInference /\ token_category = NoneDict

NextOracle ==
    \/ \E cell \in OracleCells :
          /\ inferred = NoCall
          /\ Cardinality(StoredRows) < MaxOracleRows
          /\ parse_question_response(SignalSheet, "A4.2", cell[1], cell[2], None, None)
    \/ infer_risk_tags

SpecOracle == InitOracle /\ [][NextOracle]_vars

\* the resolved oracle-reliability answer
C23_Oracle == get_signal_answer(ParsedDdq, "oracle_reliability")

\* the raw text of an answer names no oracle
C23_NamesNoOracle(a) ==
    \/ Contains(Lower(a.raw_response), "no oracle")
    \/ Contains(Lower(a.raw_response), "not oracle")

\* C23 as stated: oracle_dependency_risk is emitted iff the
\* oracle-reliability signal exists and its raw text contains neither
\* "no oracle" nor "not oracle", whatever its bucket, na included;
\* defi_liquidation_mechanism_risk is emitted iff oracle_dependency_risk is
\* emitted and the bucket of the signal is partial or unknown.
C23_OracleRuleAnyBucket ==
    inferred # NoCall =>
        \A a \in { C23_Oracle } :
            LET dependency == "oracle_dependency_risk" \in Range(inferred.tags)
                liquidation == "defi_liquidation_mechanism_risk" \in Range(inferred.tags)
            IN  /\ dependency <=> (a # NoneDict /\ ~C23_NamesNoOracle(a))
                /\ liquidation <=>
                      dependency /\ C15_Bucket(a.raw_response) \in { "partial", "unknown" }

\* C23, amended: oracle_dependency_risk is emitted iff the
\* oracle-reliability signal exists, its bucket is not na and its raw text
\* contains neither "no oracle" nor "not oracle";
\* defi_liquidation_mechanism_risk is emitted iff oracle_dependency_risk is
\* emitted and the bucket of the signal is partial or unknown.
C23_OracleRuleExceptNa ==
    inferred # NoCall =>
        \A a \in { C23_Oracle } :
            LET dependency == "oracle_dependency_risk" \in Range(inferred.tags)
                liquidation == "defi_liquidation_mechanism_risk" \in Range(inferred.tags)
            IN  /\ dependency <=> ( /\ a # NoneDict
                                    /\ C15_Bucket(a.raw_response) # "na"
                                    /\ ~C23_NamesNoOracle(a) )
                /\ liquidation <=>
                      dependency /\ C15_Bucket(a.raw_response) \in { "partial", "unknown" }

\* the signal exists with the bucket na and a raw text that names no
\* oracle phrase, and the tag is not emitted
C23_Witness ==
    /\ inferred # NoCall
    /\ C23_Oracle # NoneDict
    /\ C15_Bucket(C23_Oracle.raw_response) = "na"
    /\ ~C23_NamesNoOracle(C23_Oracle)
    /\ "oracle_dependency_risk" \notin Range(inferred.tags)

(***************************************************************************)
(* SpecTokenType: the token type is derived from the A1.1 category of the  *)
(* parsed DDQ when the risk tags are inferred from an empty answer store   *)
(***************************************************************************)
\* the primary and secondary cells of the A1.1 row; None for an empty cell
PrimaryCategoryTexts ==
    { None, "Stablecoin", "Algorithmic stablecoin", "Wrapped asset", "Tokenised Security",
      "MEME coin", "DeFi protocol", "Native L1", "native Layer 2 token", "Native coin",
      "Governance", "Governance & Utility", "Utility token", "Payment  token" }

SecondaryCategoryTexts ==
    { None, "", "stablecoin", "Wrapped", "Security", "Meme", "DeFi", "Native L1",
      "Governance", " Utility " }

\* parsed_ddq["token_category"]: None without an A1.1 row
TokenTypeCategories ==
    { NoneDict }
    \cup { [ primary |-> p, secondary |-> s, confidence |-> "High" ] :
             p \in PrimaryCategoryTexts, s \in SecondaryCategoryTexts }

InitTokenType ==
    /\ pc = "input"
    /\ band = 0
    /\ escs = << >>
    /\ tags = << >>
    /\ catalogue = "shipped"
    /\ ctx = << >>
    /\ reqs = << >>
    /\ cards = << >>
    /\ answers_by_key = << >>
    /\ asked = NoCall
    /\ answer = NoneDict
    /\ registry = "shipped"
    /\ token_category \in TokenTypeCategories
    /\ inferred = NoCall
    /\ calls = 0
    /\ domain_stats = << >>
    /\ token_meta = NoTokenMeta
    /\ refiner = NoRefiner

NextTokenType == infer_risk_tags

SpecTokenType == InitTokenType /\ [][NextTokenType]_vars

\* the place of a token type in the priority order of the classes
C24_Rank(token_type) ==
    CASE token_type \in { "stablecoin_algorithmic", "stablecoin_fiat" } -> 1
      [] token_type = "wrapped" -> 2
      [] token_type = "security_token" -> 3
      [] token_type = "memecoin" -> 4
      [] token_type = "defi" -> 5
      [] token_type \in { "native_l1", "native_l2" } -> 6
      [] token_type = "governance_utility" -> 7
      [] token_type = "governance" -> 8
      [] token_type = "utility" -> 9
      [] token_type = "other" -> 10

\* a field of the category, lower-cased; "" for an empty cell
C24_Field(name) ==
    IF token_category = NoneDict \/ token_category[name] = None THEN ""
    ELSE Lower(token_category[name])

C24_In(txt, needles) == \E n \in needles : Contains(txt, n)

\* the classes whose marker occurs in the given texts
C24_Marked(stable, wrapped, security, meme, defi, native, govern, utility_with_govern, utility) ==
    { 10 }
    \cup (IF C24_In(stable, { "stablecoin" }) THEN { 1 } ELSE {})
    \cup (IF C24_In(wrapped, { "wrapped" }) THEN { 2 } ELSE {})
    \cup (IF C24_In(security, { "security", "tokenised" }) THEN { 3 } ELSE {})
    \cup (IF C24_In(meme, { "meme" }) THEN { 4 } ELSE {})
    \cup (IF C24_In(defi, { "defi" }) THEN { 5 } ELSE {})
    \cup (IF C24_In(native, { "native" })
             /\ C24_In(native, { "l1", "layer 1", "layer-1", "l2", "layer 2", "layer-2" })
          THEN { 6 } ELSE {})
    \cup (IF C24_In(govern, { "govern" }) /\ C24_In(utility_with_govern, { "utility" })
          THEN { 7 } ELSE {})
    \cup (IF C24_In(govern, { "govern" }) THEN { 8 } ELSE {})
    \cup (IF C24_In(utility, { "utility" }) THEN { 9 } ELSE {})

C24_First(S) == CHOOSE r \in S : \A x \in S : r <= x

\* C24 as stated: the token type is the first class, in the order
\* stablecoin, wrapped, security/tokenised, meme, defi, native L1/L2,
\* governance+utility, governance, utility, other, whose marker occurs in
\* either field of the primary/secondary pair, case-insensitively: when the
\* marker of an earlier class occurs in either field no later class is
\* returned; meme with defi is memecoin; an absent category is other.
C24_FirstMarkerInEitherField ==
    inferred # NoCall =>
        \A both \in { C24_Field("primary") \o " | " \o C24_Field("secondary") } :
            /\ \A r \in C24_Marked(both, both, both, both, both, both, both, both, both) :
                  C24_Rank(inferred._token_type_inferred.token_type) <= r
            /\ (C24_In(both, { "meme" }) /\ C24_In(both, { "defi" })
                /\ C24_Rank(inferred._token_type_inferred.token_type) >= 4)
                  => inferred._token_type_inferred.token_type = "memecoin"
            /\ token_category = NoneDict => inferred._token_type_inferred.token_type = "other"

\* C24, amended: the token type is the first class, in the same order,
\* whose marker occurs, case-insensitively: in either field for
\* stablecoin, wrapped, security/tokenised, meme and defi; in the primary
\* field for native L1/L2, governance and utility; for governance+utility
\* "govern" in the primary field and "utility" in either field. Meme with
\* defi is memecoin; an absent category is other.
C24_FirstMarkerByClassFields ==
    inferred # NoCall =>
        \A p \in { C24_Field("primary") } :
        \A both \in { C24_Field("primary") \o " | " \o C24_Field("secondary") } :
            /\ C24_Rank(inferred._token_type_inferred.token_type)
                  = C24_First(C24_Marked(both, both, both, both, both, p, p, both, p))
            /\ (C24_In(both, { "meme" }) /\ C24_In(both, { "defi" })
                /\ C24_Rank(inferred._token_type_inferred.token_type) >= 4)
                  => inferred._token_type_inferred.token_type = "memecoin"
            /\ token_category = NoneDict => inferred._token_type_inferred.token_type = "other"

\* the primary field names the utility class, the secondary field the
\* earlier governance class, and the token type is utility
C24_Witness ==
    /\ inferred # NoCall
    /\ C24_In(C24_Field("primary"), { "utility" })
    /\ ~C24_In(C24_Field("primary"), { "govern" })
    /\ C24_In(C24_Field("secondary"), { "govern" })
    /\ inferred._token_type_inferred.token_type = "utility"

(***************************************************************************)
(* SpecStructural: for a range of A1.1 categories, rows of the four        *)
(* control questions are parsed, each question answered at most once, then *)
(* the risk tags are inferred                                              *)
(***************************************************************************)
MaxStructuralRows == 3

\* parsed_ddq["token_category"]: None, or a category of each kind
StructuralCategories ==
    { NoneDict }
    \cup { [ primary |-> p, secondary |-> None, confidence |-> "Medium" ] :
             p \in { "Stablecoin", "MEME coin", "DeFi protocol", "Native L1", "Governance",
                     "Governance & Utility", "Utility token", "Payment  token" } }

\* <<Question_ID, Raw_Response>> cells
StructuralCells ==
    { << "B3.1", "Yes" >>, << "B3.2", "Yes" >>, << "C1.1", "Yes" >>, << "A4.2", "Yes" >> }

InitStructural ==
    /\ pc = "input"
    /\ band = 0
    /\ escs = << >>
    /\ tags = << >>
    /\ catalogue = "shipped"
    /\ ctx = << >>
    /\ reqs = << >>
    /\ cards = << >>
    /\ answers_by_key = << >>
    /\ asked = NoCall
    /\ answer = NoneDict
    /\ registry = "shipped"
    /\ token_category \in StructuralCategories
    /\ inferred = NoCall
    /\ calls = 0
    /\ domain_stats = << >>
    /\ token_meta = NoTokenMeta
    /\ refiner = NoRefiner

NextStructural ==
    \/ \E cell \in StructuralCells :
          /\ inferred = NoCall
          /\ Cardinality(StoredRows) < MaxStructuralRows
          /\ key(SignalSheet, cell[1]) \notin DOMAIN answers_by_key
          /\ parse_question_response(SignalSheet, cell[1], cell[2], "High", None, None)
    \/ infer_risk_tags

SpecStructural == InitStructural /\ [][NextStructural]_vars

\* the token type of the DDQ category is one of the four structural types
C25_StructuralType ==
    canonical_token_type_from_ddq(token_category).token_type
        \in { "defi", "governance", "governance_utility", "utility" }

\* C25: from an empty answer store the inference returns exactly
\* admin_key_centralisation_risk, complex_protocol_design_risk and
\* poor_disclosure_quality_risk, and smart_contract_risk exactly when the
\* token type of the DDQ category is defi, governance, governance_utility
\* or utility; whatever the store holds, smart_contract_risk is emitted iff
\* the token type is one of the four.
C25_EmptyStoreTags ==
    inferred # NoCall =>
        /\ StoredRows = {} =>
              Range(inferred.tags) =
                  { "admin_key_centralisation_risk", "complex_protocol_design_risk",
                    "poor_disclosure_quality_risk" }
                  \cup (IF C25_StructuralType THEN { "smart_contract_risk" } ELSE {})
        /\ "smart_contract_risk" \in Range(inferred.tags) <=> C25_StructuralType

\* the store is empty, the category is a utility token, and the four tags
\* are returned
C25_Witness ==
    /\ inferred # NoCall
    /\ StoredRows = {}
    /\ token_category # NoneDict
    /\ token_category.primary = "Utility token"
    /\ inferred.tags = << "admin_key_centralisation_risk", "complex_protocol_design_risk",
                          "poor_disclosure_quality_risk", "smart_contract_risk" >>

(***************************************************************************)
(* SpecRepeat: answer rows are parsed into the store, the risk tags are    *)
(* inferred, and inferred again from the parsed DDQ the first call has     *)
(* written into                                                            *)
(***************************************************************************)
InitRepeat == InitInference

NextRepeat ==
    \/ \E row \in InferenceRowCells :
          /\ inferred = NoCall
          /\ Cardinality(StoredRows) < MaxInferenceRows
          /\ parse_question_response(row[1], row[2], row[3], row[4], row[5], row[6])
    \/ infer_risk_tags
    \/ infer_risk_tags_again

SpecRepeat == InitRepeat /\ [][NextRepeat]_vars

\* C26: a call of the tag inference on a parsed DDQ that an earlier call
\* has written into returns the tag list of the earlier call and leaves an
\* evidence map equal to the one the earlier call left (the evidence is
\* replaced, not accumulated); no call changes the answer rows or the token
\* category.
C26_InferenceRepeatable ==
    [][calls' > calls =>
          /\ answers_by_key' = answers_by_key
          /\ token_category' = token_category
          /\ calls >= 1 =>
                /\ inferred'.tags = inferred.tags
                /\ inferred'._tag_evidence = inferred._tag_evidence]_vars

\* a second call was made on a parsed DDQ whose first call left evidence
C26_Witness ==
    /\ calls = 2
    /\ inferred # NoCall
    /\ DOMAIN inferred._tag_evidence # {}
    /\ "_tag_evidence" \in DOMAIN MutatedDdq

(***************************************************************************)
(* Claims on the bounds a posture implies (Spec)                           *)
(***************************************************************************)
\* C27: in every listing context, an intermediate posture implies
\* overall_band = 3, total_escalations < 6 and esg_escalations < 2; a
\* benign posture implies overall_band <= 3 and not both
\* has_speculative_profile and has_hard_control.
C27_PostureBounds ==
    pc = "built" =>
        /\ ctx.posture = "intermediate" =>
              /\ ctx.overall_band = 3
              /\ ctx.total_escalations < 6
              /\ ctx.esg_escalations < 2
        /\ ctx.posture = "benign" =>
              /\ ctx.overall_band <= 3
              /\ ~(ctx.has_speculative_profile /\ ctx.has_hard_control)

\* an intermediate posture at the edge of both counts: five escalations,
\* one of them ESG
C27_Witness ==
    /\ pc = "built"
    /\ ctx.posture = "intermediate"
    /\ ctx.total_escalations = 5
    /\ ctx.esg_escalations = 1

(***************************************************************************)
(* SpecMonotone: a report of the shipped catalogue is generated, and       *)
(* generated again after an included tag record or an escalation row is    *)
(* added or the overall band is raised                                     *)
(***************************************************************************)
MaxMonotoneRows == 4
MaxMonotoneTags == 2

MonotoneRows ==
    { Esc("Review Required", "Strategic, ESG & Reputational"),
      Esc("Escalate to committee", "Technical & Protocol Security") }

MonotoneTags ==
    { Tag("treasury_concentration_risk"), Tag("memecoin_hype_dependency_risk"),
      Tag("admin_key_centralisation_risk") }

\* the report is generated again with the next higher overall band
RaiseBand(b) ==
    /\ pc = "built"
    /\ b = band + 1
    /\ band' = b
    /\ UNCHANGED <<pc, escs, tags, catalogue, ddq, report>>
    /\ Generate(b, escs, tags)

InitMonotone == InitWith(Bands, { << >> }, { "shipped" })

NextMonotone ==
    \/ build_report_snapshot
    \/ \E row \in MonotoneRows : Len(escs) < MaxMonotoneRows /\ AddEscalation(row)
    \/ \E rec \in MonotoneTags : Len(tags) < MaxMonotoneTags /\ AddTag(rec)
    \/ \E b \in Bands : RaiseBand(b)

SpecMonotone == InitMonotone /\ [][NextMonotone]_vars

\* C28: for the shipped catalogue, when an included tag record or an
\* escalation row is added or the overall band is raised, every
\* requirement identifier of the output before the change is in the output
\* after it.
C28_RequirementsMonotone ==
    [][(pc = "built" /\ pc' = "built")
          => { reqs[i].id : i \in 1..Len(reqs) } \subseteq { reqs'[i].id : i \in 1..Len(reqs') }]_vars

\* a report at band 4 that holds the ESG review, the committee sign-off and
\* the speculative-profile requirements, each gained by a change of the
\* inputs
C28_Witness ==
    /\ pc = "built"
    /\ band = 4
    /\ Len(escs) = 4
    /\ Len(tags) = 2
    /\ { "esg_reputational_review", "committee_signoff_required",
         "speculative_profile_retail_controls", "scheduled_risk_reassessment" }
          \subseteq RequirementIds

(***************************************************************************)
(* Report snapshot: base tags, the tag refiner and the listing layer       *)
(***************************************************************************)
\* base_risk_tags = sorted(set(base_meta["risk_tags"]) | set(inferred_tags))
base_risk_tags(meta, inferred_tags) ==
    SortedStrings(Range(meta.risk_tags) \cup Range(inferred_tags))

\* one record per base tag, every one included
included_records(base, reason) ==
    [ i \in 1..Len(base) |-> [ id |-> base[i], include |-> TRUE, reason |-> reason ] ]

\* mutant: after a refiner error no tag record is passed on
records_on_error_None(base) == << >>

\* the except branch around refine_risk_tags_via_gpt
records_on_error(base) ==
    included_records(base, "Included by deterministic DDQ rule (risk tag refiner error).")

\* the branch of a refiner that is switched off
records_when_disabled(base) ==
    included_records(base, "Included by deterministic DDQ rule (GPT refiner disabled).")

\* what a refiner that answers may return for the base tags: a record for
\* every base tag, with none, the first or all of them not included
RefinerResults(base) ==
    { [ i \in 1..Len(base) |->
          [ id |-> base[i], include |-> base[i] \notin dropped, reason |-> "Refined." ] ] :
        dropped \in { {}, Range(base), IF base = << >> THEN {} ELSE { base[1] } } }

\* refined_risk_tags of build_report_snapshot
refined_risk_tags_of(mode, base, result) ==
    IF base = << >> THEN << >>
    ELSE IF mode = "disabled" THEN records_when_disabled(base)
    ELSE IF mode = "raises" THEN records_on_error(base)
    ELSE result

\* build_report_snapshot from the parsed DDQ: the tags are inferred, united
\* with the caller's tags, handed to the refiner, and the refined records
\* are handed to the listing layer
build_report_snapshot_from_ddq ==
    /\ pc = "input"
    /\ inferred = NoCall
    /\ asked = NoCall
    /\ pc' = "built"
    /\ \E run \in { infer_risk_tags_from_ddq(ParsedDdq) } :
       \E base \in { base_risk_tags(token_meta, run.tags) } :
       \E result \in RefinerResults(base) :
       \E refined \in { refined_risk_tags_of(refiner.mode, base, result) } :
          /\ inferred' = run
          /\ calls' = calls + 1
          /\ refiner' = IF base # << >> /\ refiner.mode # "disabled"
                        THEN [ refiner EXCEPT !.calls = @ + 1 ] ELSE refiner
          /\ tags' = refined
          /\ Generate(band, escs, refined)
    /\ UNCHANGED <<band, escs, catalogue, answers_by_key, asked, answer, registry,
                   token_category, domain_stats, token_meta>>

(***************************************************************************)
(* SpecSnapshot: rows of four control questions are parsed, each question  *)
(* answered at most once, then the report is built from the parsed DDQ     *)
(* with the caller's tags, under a refiner that is switched off, raises or *)
(* answers                                                                 *)
(***************************************************************************)
MaxSnapshotRows == 4

\* <<Question_ID, Raw_Response>> cells; the four together leave no
\* inferred tag
SnapshotCells ==
    { << "B3.1", "Yes" >>, << "B3.2", "Yes" >>, << "C1.1", "Yes" >>,
      << "A4.2", "No oracle used" >> }

\* token_meta["risk_tags"] of the caller
CallerTagLists ==
    { << >>,
      << "smart_contract_risk" >>,
      << "memecoin_hype_dependency_risk", "admin_key_centralisation_risk" >>,
      << " smart_contract_risk " >>,
      << "" >> }

InitSnapshot ==
    /\ pc = "input"
    /\ band = 3
    /\ escs = << >>
    /\ tags = << >>
    /\ catalogue = "shipped"
    /\ ctx = << >>
    /\ reqs = << >>
    /\ cards = << >>
    /\ answers_by_key = << >>
    /\ asked = NoCall
    /\ answer = NoneDict
    /\ registry = "shipped"
    /\ token_category = NoneDict
    /\ inferred = NoCall
    /\ calls = 0
    /\ domain_stats = << >>
    /\ token_meta \in { [ risk_tags |-> l ] : l \in CallerTagLists }
    /\ refiner \in { [ mode |-> m, calls |-> 0 ] : m \in { "disabled", "raises", "returns" } }

NextSnapshot ==
    \/ \E cell \in SnapshotCells :
          /\ pc = "input"
          /\ Cardinality(StoredRows) < MaxSnapshotRows
          /\ key(SignalSheet, cell[1]) \notin DOMAIN answers_by_key
          /\ parse_question_response(SignalSheet, cell[1], cell[2], "High", None, None)
    \/ build_report_snapshot_from_ddq

SpecSnapshot == InitSnapshot /\ [][NextSnapshot]_vars

\* the base tags of the report that was built
C29_BaseTags == Range(token_meta.risk_tags) \cup Range(inferred.tags)

\* every base tag was handed on as an included record
C29_EveryBaseTagIncluded ==
    \A t \in C29_BaseTags : \E i \in 1..Len(tags) : tags[i].id = t /\ tags[i].include

\* C29 as stated: when the tag refiner raises or is switched off, every
\* base tag (the inferred tags united with the caller's tags) is passed on
\* as an included record and the tag set of the listing context equals the
\* base tag set; when the base tag set is empty the refiner is not called
\* and the tag set of the listing context is empty.
C29_ContextTagsAreBaseTags ==
    (pc = "built" /\ inferred # NoCall) =>
        /\ refiner.mode \in { "raises", "disabled" } =>
              /\ C29_EveryBaseTagIncluded
              /\ ctx.tags = C29_BaseTags
        /\ C29_BaseTags = {} => (refiner.calls = 0 /\ ctx.tags = {})

\* C29, amended: when the tag refiner raises or is switched off, every base
\* tag is passed on as an included record and the tag set of the listing
\* context is the set of the base tags with surrounding white space
\* stripped, without the empty one; when the base tag set is empty the
\* refiner is not called and the tag set of the listing context is empty.
C29_ContextTagsAreStrippedBaseTags ==
    (pc = "built" /\ inferred # NoCall) =>
        /\ refiner.mode \in { "raises", "disabled" } =>
              /\ C29_EveryBaseTagIncluded
              /\ ctx.tags = { Strip(t) : t \in C29_BaseTags } \ { "" }
        /\ C29_BaseTags = {} => (refiner.calls = 0 /\ ctx.tags = {})

\* the refiner raised on base tags of both origins, and the listing
\* context holds them
C29_Witness ==
    /\ pc = "built"
    /\ inferred # NoCall
    /\ refiner = [ mode |-> "raises", calls |-> 1 ]
    /\ Range(inferred.tags) # {}
    /\ token_meta.risk_tags = << " smart_contract_risk " >>
    /\ ctx.tags = Range(inferred.tags) \cup { "smart_contract_risk" }

(***************************************************************************)
(* DDQ parser: domain statistics and board escalation counts               *)
(***************************************************************************)
\* the Domain column of Master_Summary, read down to the first blank cell
RECURSIVE parse_domain_stats(_, _, _)
parse_domain_stats(cells, row, out) ==
    IF row > Len(cells) THEN out
    ELSE IF cells[row] = None \/ Strip(cells[row]) = "" THEN out
    ELSE parse_domain_stats(cells, row + 1,
             Append(out, [ name |-> Strip(cells[row]),
                           has_board_escalation |-> FALSE,
                           board_escalation_count |-> 0 ]))

\* the rows of one sheet that carry a flag, in row order
RECURSIVE sheet_escalations(_, _, _, _)
sheet_escalations(sheet_name, flags, row, out) ==
    IF row > Len(flags) THEN out
    ELSE LET flag_str == Strip(IF flags[row] = None THEN "" ELSE flags[row]) IN
         IF flag_str = "" THEN sheet_escalations(sheet_name, flags, row + 1, out)
         ELSE sheet_escalations(sheet_name, flags, row + 1,
                                Append(out, Esc(flag_str, sheet_name)))

\* every sheet in workbook order
RECURSIVE parse_board_escalations(_, _, _)
parse_board_escalations(sheets, i, out) ==
    IF i > Len(sheets) THEN out
    ELSE parse_board_escalations(sheets, i + 1,
             sheet_escalations(sheets[i].name, sheets[i].flags, 1, out))

\* mutant: every parsed escalation row of the domain is counted
RECURSIVE board_trigger_count_AnyFlag(_, _, _, _)
board_trigger_count_AnyFlag(board_escalations, name, i, n) ==
    IF i > Len(board_escalations) THEN n
    ELSE board_trigger_count_AnyFlag(board_escalations, name, i + 1,
             IF board_escalations[i].domain_name = name THEN n + 1 ELSE n)

\* counts.get(name, 0) after the Counter loop of parse_ddq
RECURSIVE board_trigger_count(_, _, _, _)
board_trigger_count(board_escalations, name, i, n) ==
    IF i > Len(board_escalations) THEN n
    ELSE board_trigger_count(board_escalations, name, i + 1,
             IF /\ parser_is_real_board_trigger(board_escalations[i].flag)
                /\ board_escalations[i].domain_name = name
             THEN n + 1 ELSE n)

\* the enrichment loop of parse_ddq
enrich_domain_stats(stats, board_escalations) ==
    [ i \in 1..Len(stats) |->
        LET c == board_trigger_count(board_escalations, stats[i].name, 1, 0) IN
        [ stats[i] EXCEPT !.board_escalation_count = c, !.has_board_escalation = c > 0 ] ]

\* parse_ddq on a workbook without question responses
parse_ddq(wb) ==
    /\ pc = "workbook"
    /\ pc' = "input"
    /\ \E parsed \in { parse_board_escalations(wb.sheets, 1, << >>) } :
          /\ escs' = parsed
          /\ domain_stats' = enrich_domain_stats(parse_domain_stats(wb.master_summary, 1, << >>), parsed)
    /\ UNCHANGED <<band, tags, catalogue, ctx, reqs, cards, ddq, token_meta, refiner>>

(***************************************************************************)
(* SpecDomainStats: a workbook is parsed, then the report is built from    *)
(* the parsed rows                                                         *)
(***************************************************************************)
MaxSheetRows == 2

\* Domain columns of Master_Summary, top to bottom
DomainColumns ==
    { << >>,
      << "Technical & Protocol Security" >>,
      << "Technical & Protocol Security", " Strategic, ESG & Reputational " >>,
      << " Strategic, ESG & Reputational ", "Technical & Protocol Security", None >>,
      << "Technical & Protocol Security", "", "Regulatory & Legal" >>,
      << "Technical & Protocol Security", "Technical & Protocol Security" >> }

\* the domain sheets of the workbook, in workbook order; the second has
\* no row in Master_Summary
DomainSheets == << "Technical & Protocol Security", "Regulatory & Legal" >>

\* cells of the Board_Escalation_Flag column
FlagCells == { "Review Required", "No Review", None }

SeqsUpTo(S, n) == UNION { [ 1..k -> S ] : k \in 0..n }

Workbooks ==
    { [ master_summary |-> m,
        sheets |-> << [ name |-> DomainSheets[1], flags |-> f1 ],
                      [ name |-> DomainSheets[2], flags |-> f2 ] >> ] :
        m \in DomainColumns,
        f1 \in SeqsUpTo(FlagCells, MaxSheetRows),
        f2 \in SeqsUpTo(FlagCells, MaxSheetRows) }

InitDomainStats ==
    /\ pc = "workbook"
    /\ band = 3
    /\ escs = << >>
    /\ tags = << >>
    /\ catalogue = "shipped"
    /\ ctx = << >>
    /\ reqs = << >>
    /\ cards = << >>
    /\ answers_by_key = << >>
    /\ asked = NoCall
    /\ answer = NoneDict
    /\ registry = "shipped"
    /\ token_category = NoneDict
    /\ inferred = NoCall
    /\ calls = 0
    /\ domain_stats = << >>
    /\ token_meta = NoTokenMeta
    /\ refiner = NoRefiner

NextDomainStats ==
    \/ \E wb \in Workbooks : parse_ddq(wb)
    \/ build_report_snapshot

SpecDomainStats == InitDomainStats /\ [][NextDomainStats]_vars

\* the parsed escalation rows of a domain whose flag is a real trigger
C30_RealTriggerRows(name) ==
    { i \in 1..Len(escs) :
        escs[i].domain_name = name /\ parser_is_real_board_trigger(escs[i].flag) }

\* the domains of the statistics
C30_Domains == { domain_stats[i].name : i \in 1..Len(domain_stats) }

\* the count the statistics hold for a domain
C30_CountOf(name) ==
    (CHOOSE d \in Range(domain_stats) : d.name = name).board_escalation_count

RECURSIVE C30_Sum(_)
C30_Sum(names) ==
    IF names = {} THEN 0
    ELSE LET n == CHOOSE x \in names : TRUE IN C30_CountOf(n) + C30_Sum(names \ { n })

====
